---- MODULE Spec2Model ----
(***************************************************************************)
(* Verification model of the Yot-Presentation voice controller v5.3.1     *)
(* (src/src/v5.3.1/yot_presentation_v5.3.1.py): the debounced priority    *)
(* input buffer (OptimizedInputBuffer) driven by concurrent threads, the   *)
(* two-stage command matcher (PowerPointControllerV53.match_command),     *)
(* the dispatch loop of the controller (run, listen_loop, execute), the    *)
(* language detector (MultiLanguageDetector), the training data logger     *)
(* (AudioTextRecord, AdvancedTrainingDataLogger) and process_command,      *)
(* start and stop of the config-driven controller                          *)
(* (src/yot_presentation.py).                                              *)
(***************************************************************************)
EXTENDS Integers, Sequences, FiniteSets, TLC

(***************************************************************************)
(* Bounds of the model                                                     *)
(***************************************************************************)
\* capacity N of the buffer under study (Config.INPUT_BUFFER_SIZE is 10)
buffer_size == 2
\* debounce interval D in clock units (Config.INPUT_DEBOUNCE_MS is 50)
debounce_ms == 1
\* number of entries add_input stores
MaxItems == 3
\* number of clock advances explored
MaxTicks == 1

(***************************************************************************)
(* OptimizedInputBuffer: values                                            *)
(***************************************************************************)
\* the threads that call into one buffer
Threads == {"t1", "t2"}
NoThread == "none"

\* payload strings, listed in Python's string order ("back" < "next")
Payloads == <<"back", "next">>
PayloadRank(c) == CHOOSE i \in 1..Len(Payloads) : Payloads[i] = c

\* time.time() at construction: far more than one debounce interval after 0.0
\* the (command, priority) arguments callers pass to add_input
Inputs == {<<"next", 0>>, <<"back", 0>>, <<"back", 5>>}

StartTime == debounce_ms + 1

VARIABLES
    queue,                 \* self.queue: the entries of the PriorityQueue
    last_execution_time,   \* self.last_execution_time
    lock,                  \* self.lock: its holder, or NoThread
    clock,                 \* the value time.time() returns now
    pc,                    \* where each thread is inside its current call
    frame,                 \* the locals of each thread's current call
    ret,                   \* the call completed last and what it returned
    added,                 \* number of entries put() has stored (entry ids are 1..added)
    returned,              \* entry id and now of every get_next that returned a payload
    evicted,               \* ids of the entries add_input removed to make room
    flushed,               \* ids of the entries flush removed
    text,                  \* match_command: the text argument
    language,              \* match_command: the language argument
    FUZZY_THRESHOLD,       \* self.config.FUZZY_THRESHOLD
    result,                \* what match_command returned
    running,               \* self.running
    command_queue,         \* self.command_queue: the items put and not yet got
    heard,                 \* number of items the listener has put
    lpc,                   \* where the listener thread is
    dpc,                   \* where the main thread is in run() and execute()
    stats,                 \* self.stats
    logged,                \* the records log_text has stored
    executed,              \* the commands that reached the action map, and how they ended
    summary,               \* the counts run() printed at its end
    cancelled,             \* a KeyboardInterrupt ended the loop
    confidence,            \* execute: the confidence argument
    mic,                   \* the machine lists a microphone
    ppt,                   \* an active presentation is open
    ENABLE_TRAINING,       \* self.config.ENABLE_TRAINING
    LOG_CONFIDENCE_THRESHOLD,  \* self.config.LOG_CONFIDENCE_THRESHOLD, in percent
    detector,              \* MultiLanguageDetector: supported_languages, primary_language, parallel
    texts,                 \* detect_batch: the texts argument
    dstats,                \* MultiLanguageDetector.stats
    classified,            \* what the classifier answered to each text it was asked about
    tasks,                 \* detect_batch: the call of detect on each text
    workers,               \* detect_batch: what each thread running detect holds
    batch,                 \* detect_batch: how the call ended and what it returned
    wallclock,             \* the reading of the wall clock
    created,               \* number of calls of AudioTextRecord.create
    db,                    \* the rows of the training table, by id
    jsonl,                 \* the lines of the JSONL file
    statistics,            \* what get_statistics returned last
    export,                \* what export_training_set returned last
    commands,              \* VoiceControlledPowerPoint.commands
    keypresses,            \* the keys simulate_keypress was called with
    processed,             \* the calls of process_command: text and return value
    monitoring,            \* VoiceControlledPowerPoint.running
    monitoring_thread,     \* self.monitoring_thread: the thread made last, or NoMonitor
    thread,                \* where every monitoring thread is in listen_and_execute
    main                   \* where the caller of start() and stop() is

\* the state of the buffer and of its callers
bvars == <<queue, last_execution_time, lock, clock, pc, frame, ret,
           added, returned, evicted, flushed>>
\* the state of the matcher
mvars == <<text, language, FUZZY_THRESHOLD, result>>

\* the state of the controller
cvars == <<running, command_queue, heard, lpc, dpc, stats, logged, executed,
           summary, cancelled, confidence, mic, ppt,
           ENABLE_TRAINING, LOG_CONFIDENCE_THRESHOLD>>

\* the state of the language detector
dvars == <<detector, texts, dstats, classified, tasks, workers, batch>>

\* the state of the training data logger
tvars == <<wallclock, created, db, jsonl, statistics, export>>

\* the state of the config-driven controller of yot_presentation.py
pvars == <<commands, keypresses, processed>>

\* the monitoring threads of that controller and the caller of start and stop
svars == <<monitoring, monitoring_thread, thread, main>>

\* the state of the components the dispatch loop does not step
evars == <<dvars, tvars, pvars, svars>>

vars == <<bvars, mvars, cvars, evars>>

\* the tuple (priority, time.time(), command) handed to put(); id tells apart
\* two tuples with equal fields and takes no part in the ordering
Entry(p, c) == [priority |-> p, time |-> clock, command |-> c, id |-> added + 1]

\* Python's tuple comparison on (priority, time, command)
TupleLess(a, b) ==
    \/ a.priority < b.priority
    \/ a.priority = b.priority /\ a.time < b.time
    \/ a.priority = b.priority /\ a.time = b.time
         /\ PayloadRank(a.command) < PayloadRank(b.command)

\* a heap that yields its greatest tuple
HeapMax(q) == {x \in q : \A y \in q : ~TupleLess(x, y)}

\* the entries heappop may yield: the least tuples of the heap
HeapMin(q) == {x \in q : \A y \in q : ~TupleLess(y, x)}

\* a queue built without maxsize
Unbounded(q) == FALSE

\* queue.Queue.put(block=False): maxsize > 0 and qsize() >= maxsize raises Full
IsFull(q) == buffer_size > 0 /\ Cardinality(q) >= buffer_size

\* a get that leaves the entry in the queue
Peek(q, x) == q

\* queue.get removes the entry it returns
Take(q, x) == q \ {x}

\* a get_next that takes no lock
Unlocked == TRUE

\* with self.lock: the caller enters when no thread holds the lock
LockFree == lock = NoThread

\* a gate that is still closed when exactly debounce_ms has elapsed
GateShut(now) == now - last_execution_time <= debounce_ms

\* the debounce test of get_next
GateClosed(now) == now - last_execution_time < debounce_ms

NoFrame == [priority |-> 0, command |-> "", now |-> 0]
NoRet == [op |-> "", val |-> ""]

Return(t, op, val) ==
    /\ pc' = [pc EXCEPT ![t] = "idle"]
    /\ frame' = [frame EXCEPT ![t] = NoFrame]
    /\ ret' = [op |-> op, val |-> val]

\* put((priority, time.time(), command), block=False) when there is room
Put(p, c) ==
    /\ queue' = queue \cup {Entry(p, c)}
    /\ added' = added + 1

BufferInit ==
    /\ queue = {}
    /\ last_execution_time = 0
    /\ lock = NoThread
    /\ clock = StartTime
    /\ pc = [t \in Threads |-> "idle"]
    /\ frame = [t \in Threads |-> NoFrame]
    /\ ret = NoRet
    /\ added = 0
    /\ returned = <<>>
    /\ evicted = {}
    /\ flushed = {}

\* time passes
Tick ==
    /\ clock < StartTime + MaxTicks
    /\ clock' = clock + 1
    /\ UNCHANGED <<queue, last_execution_time, lock, pc, frame, ret,
                   added, returned, evicted, flushed>>
    /\ UNCHANGED <<mvars, cvars, evars>>

(***************************************************************************)
(* add_input(command, priority)                                            *)
(***************************************************************************)
\* the call and its first put((priority, time.time(), command), block=False)
AddInput(t, c, p) ==
    /\ pc[t] = "idle"
    /\ added < MaxItems
    /\ IF ~IsFull(queue)
       THEN /\ Put(p, c)
            /\ Return(t, "add_input", "True")
       ELSE \* queue.Full caught
            /\ pc' = [pc EXCEPT ![t] = "add_evict"]
            /\ frame' = [frame EXCEPT ![t] = [priority |-> p, command |-> c, now |-> 0]]
            /\ UNCHANGED <<queue, added, ret>>
    /\ UNCHANGED <<last_execution_time, lock, clock, returned, evicted, flushed>>
    /\ UNCHANGED <<mvars, cvars, evars>>

\* self.queue.get_nowait() in the except branch
AddEvict(t) ==
    /\ pc[t] = "add_evict"
    /\ IF queue # {}
       THEN \E x \in HeapMin(queue) :
              /\ queue' = Take(queue, x)
              /\ evicted' = evicted \cup {x.id}
              /\ pc' = [pc EXCEPT ![t] = "add_put2"]
              /\ UNCHANGED <<frame, ret>>
       ELSE \* queue.Empty caught
            /\ Return(t, "add_input", "False")
            /\ UNCHANGED <<queue, evicted>>
    /\ UNCHANGED <<last_execution_time, lock, clock, added, returned, flushed>>
    /\ UNCHANGED <<mvars, cvars, evars>>

\* the second put(..., block=False); a queue.Full raised here is not caught
AddRetry(t) ==
    /\ pc[t] = "add_put2"
    /\ IF ~IsFull(queue)
       THEN /\ Put(frame[t].priority, frame[t].command)
            /\ Return(t, "add_input", "True")
       ELSE /\ Return(t, "add_input", "raise queue.Full")
            /\ UNCHANGED <<queue, added>>
    /\ UNCHANGED <<last_execution_time, lock, clock, returned, evicted, flushed>>
    /\ UNCHANGED <<mvars, cvars, evars>>

(***************************************************************************)
(* get_next()                                                              *)
(***************************************************************************)
\* with self.lock: now = time.time(); the debounce test
GetNext(t) ==
    /\ pc[t] = "idle"
    /\ LockFree
    /\ IF GateClosed(clock)
       THEN /\ Return(t, "get_next", "None")
            /\ UNCHANGED lock
       ELSE /\ lock' = t
            /\ pc' = [pc EXCEPT ![t] = "gn_pop"]
            /\ frame' = [frame EXCEPT ![t].now = clock]
            /\ UNCHANGED ret
    /\ UNCHANGED <<queue, last_execution_time, clock,
                   added, returned, evicted, flushed>>
    /\ UNCHANGED <<mvars, cvars, evars>>

\* a get_next that sets the clock before it tries the get
StampAlways(got, t0) == t0

\* self.last_execution_time = now stands after the get inside the try block:
\* it runs only when the get yielded an entry
Stamp(got, t0) == IF got THEN t0 ELSE last_execution_time

\* self.queue.get(block=False); self.last_execution_time = now; the lock is released
GetPop(t) ==
    /\ pc[t] = "gn_pop"
    /\ IF queue # {}
       THEN \E x \in HeapMin(queue) :
              /\ queue' = Take(queue, x)
              /\ last_execution_time' = Stamp(TRUE, frame[t].now)
              /\ returned' = Append(returned,
                     [id |-> x.id, now |-> frame[t].now])
              /\ Return(t, "get_next", x.command)
       ELSE \* queue.Empty caught
            /\ Return(t, "get_next", "None")
            /\ last_execution_time' = Stamp(FALSE, frame[t].now)
            /\ UNCHANGED <<queue, returned>>
    /\ lock' = NoThread
    /\ UNCHANGED <<clock, added, evicted, flushed>>
    /\ UNCHANGED <<mvars, cvars, evars>>

(***************************************************************************)
(* flush()                                                                 *)
(***************************************************************************)
Flush(t) ==
    /\ pc[t] = "idle"
    /\ pc' = [pc EXCEPT ![t] = "fl_test"]
    /\ UNCHANGED <<queue, last_execution_time, lock, clock, frame, ret,
                   added, returned, evicted, flushed>>
    /\ UNCHANGED <<mvars, cvars, evars>>

\* a test that takes a queue of one entry for an empty one
Drained(q) == Cardinality(q) <= 1

\* self.queue.empty()
empty(q) == q = {}

\* while not self.queue.empty():
FlushTest(t) ==
    /\ pc[t] = "fl_test"
    /\ IF empty(queue)
       THEN Return(t, "flush", "None")
       ELSE /\ pc' = [pc EXCEPT ![t] = "fl_get"]
            /\ UNCHANGED <<frame, ret>>
    /\ UNCHANGED <<queue, last_execution_time, lock, clock,
                   added, returned, evicted, flushed>>
    /\ UNCHANGED <<mvars, cvars, evars>>

\* self.queue.get_nowait() in the loop body
FlushGet(t) ==
    /\ pc[t] = "fl_get"
    /\ IF queue # {}
       THEN \E x \in HeapMin(queue) :
              /\ queue' = Take(queue, x)
              /\ flushed' = flushed \cup {x.id}
              /\ pc' = [pc EXCEPT ![t] = "fl_test"]
              /\ UNCHANGED <<frame, ret>>
       ELSE \* queue.Empty: break
            /\ Return(t, "flush", "None")
            /\ UNCHANGED <<queue, flushed>>
    /\ UNCHANGED <<last_execution_time, lock, clock, added, returned, evicted>>
    /\ UNCHANGED <<mvars, cvars, evars>>

(***************************************************************************)
(* Language catalog                                                        *)
(***************************************************************************)
None == "None"

\* the values of the Language enum that callers pass (Language.X.value)
Languages == {"en", "es", "fr", "de", "it"}

\* Config.SUPPORTED_LANGUAGES, in order
SUPPORTED_LANGUAGES == <<"en", "es", "fr", "de">>

\* a trigger written as a plain phrase, such as r"next"
Lit(phrase) == [alts |-> <<phrase>>, digits |-> FALSE]

\* a trigger of the shape r"(?:a|b|c)\s*(\d+)", or r"a\s*(\d+)"
Num(alts) == [alts |-> alts, digits |-> TRUE]

\* The catalog entries, with the triggers of every language they are written
\* for; only those of SUPPORTED_LANGUAGES are compiled.  The Chinese and Japanese
\* phrases are spelled by code point.
next_slide ==
    [cmd |-> "next_slide",
     triggers |->
       [en |-> <<Lit("next"), Lit("forward"), Lit("advance"), Lit("go right"), Lit("next slide")>>,
        es |-> <<Lit("siguiente"), Lit("adelante"), Lit("próxima"), Lit("ir a la derecha")>>,
        fr |-> <<Lit("suivant"), Lit("avancer"), Lit("aller à droite"), Lit("prochaine diapo")>>,
        de |-> <<Lit("nächst"), Lit("vorwärts"), Lit("nach rechts"), Lit("nächste folie")>>,
        it |-> <<Lit("prossimo"), Lit("avanti"), Lit("successivo"), Lit("prossima diapositiva")>>,
        pt |-> <<Lit("próximo"), Lit("avançar"), Lit("seguinte"), Lit("próximo slide")>>,
        zh |-> <<Lit("U+4E0B U+4E00 U+5F20"), Lit("U+4E0B U+4E00 U+4E2A"), Lit("U+5411 U+524D")>>,
        ja |-> <<Lit("U+6B21 U+3078"), Lit("U+9032 U+3080"), Lit("U+6B21 U+306E U+30B9 U+30E9 U+30A4 U+30C9")>>],
     fuzzy_target |-> "next"]

prev_slide ==
    [cmd |-> "prev_slide",
     triggers |->
       [en |-> <<Lit("previous"), Lit("back"), Lit("go back"), Lit("return"), Lit("last slide")>>,
        es |-> <<Lit("anterior"), Lit("atrás"), Lit("volver"), Lit("diapositiva anterior")>>,
        fr |-> <<Lit("précédent"), Lit("retour"), Lit("aller à gauche"), Lit("diapo précédente")>>,
        de |-> <<Lit("zurück"), Lit("vorherig"), Lit("nach links"), Lit("vorherige folie")>>,
        it |-> <<Lit("precedente"), Lit("indietro"), Lit("tornare"), Lit("diapositiva precedente")>>,
        pt |-> <<Lit("anterior"), Lit("voltar"), Lit("slide anterior"), Lit("para trás")>>,
        zh |-> <<Lit("U+4E0A U+4E00 U+5F20"), Lit("U+4E0A U+4E00 U+4E2A"), Lit("U+5411 U+540E")>>,
        ja |-> <<Lit("U+623B U+308B"), Lit("U+524D U+3078"), Lit("U+524D U+306E U+30B9 U+30E9 U+30A4 U+30C9")>>],
     fuzzy_target |-> "previous"]

jump_slide ==
    [cmd |-> "jump_slide",
     triggers |->
       [en |-> <<Num(<<"jump to", "go to", "slide", "page">>), Num(<<"number">>)>>,
        es |-> <<Num(<<"salta a", "ve a", "diapositiva", "página">>)>>,
        fr |-> <<Num(<<"aller à", "diapo">>), Num(<<"numéro">>)>>,
        de |-> <<Num(<<"gehe zu", "folie", "seite">>)>>,
        it |-> <<Num(<<"vai a", "diapositiva">>)>>,
        pt |-> <<Num(<<"ir para", "slide", "página">>)>>,
        zh |-> <<Num(<<"U+8DF3 U+5230", "U+8F6C U+5230", "U+5E7B U+706F U+7247">>)>>,
        ja |-> <<Num(<<"U+30B9 U+30E9 U+30A4 U+30C9", "U+30DA U+30FC U+30B8">>)>>],
     fuzzy_target |-> None]

start_show ==
    [cmd |-> "start_show",
     triggers |->
       [en |-> <<Lit("start presentation"), Lit("begin show"), Lit("present now")>>,
        es |-> <<Lit("comenzar presentación"), Lit("iniciar show"), Lit("presentar ahora")>>,
        fr |-> <<Lit("commencer présentation"), Lit("débuter diaporama")>>,
        de |-> <<Lit("präsentation starten"), Lit("show beginnen")>>,
        it |-> <<Lit("inizia presentazione"), Lit("avvia spettacolo")>>,
        pt |-> <<Lit("iniciar apresentação"), Lit("começar show")>>,
        zh |-> <<Lit("U+5F00 U+59CB U+6F14 U+793A"), Lit("U+5F00 U+59CB U+653E U+6620")>>,
        ja |-> <<Lit("U+30D7 U+30EC U+30BC U+30F3 U+30C6 U+30FC U+30B7 U+30E7 U+30F3 U+958B U+59CB"), Lit("U+30B9 U+30E9 U+30A4 U+30C9 U+30B7 U+30E7 U+30FC U+958B U+59CB")>>],
     fuzzy_target |-> "start"]

end_show ==
    [cmd |-> "end_show",
     triggers |->
       [en |-> <<Lit("stop presentation"), Lit("end show"), Lit("exit show"), Lit("close powerpoint")>>,
        es |-> <<Lit("detener presentación"), Lit("finalizar show"), Lit("cerrar powerpoint")>>,
        fr |-> <<Lit("arrêter présentation"), Lit("quitter diaporama")>>,
        de |-> <<Lit("präsentation beenden"), Lit("show beenden")>>,
        it |-> <<Lit("ferma presentazione"), Lit("termina spettacolo")>>,
        pt |-> <<Lit("parar apresentação"), Lit("sair do show")>>,
        zh |-> <<Lit("U+505C U+6B62 U+6F14 U+793A"), Lit("U+9000 U+51FA U+5E7B U+706F U+7247")>>,
        ja |-> <<Lit("U+30D7 U+30EC U+30BC U+30F3 U+30C6 U+30FC U+30B7 U+30E7 U+30F3 U+7D42 U+4E86"), Lit("U+30B9 U+30E9 U+30A4 U+30C9 U+30B7 U+30E7 U+30FC U+7D42 U+4E86")>>],
     fuzzy_target |-> "end"]

blackout ==
    [cmd |-> "blackout",
     triggers |->
       [en |-> <<Lit("black screen"), Lit("darken"), Lit("turn off")>>,
        es |-> <<Lit("pantalla negra"), Lit("oscurecer"), Lit("apagar")>>,
        fr |-> <<Lit("écran noir"), Lit("assombrir")>>,
        de |-> <<Lit("schwarzer bildschirm"), Lit("verdunkeln")>>,
        it |-> <<Lit("schermo nero"), Lit("scurire")>>,
        pt |-> <<Lit("tela preta"), Lit("escurecer")>>,
        zh |-> <<Lit("U+9ED1 U+5C4F"), Lit("U+5173 U+95ED")>>,
        ja |-> <<Lit("U+9ED2 U+3044 U+753B U+9762"), Lit("U+6697 U+304F U+3059 U+308B")>>],
     fuzzy_target |-> "black"]

zoom_in ==
    [cmd |-> "zoom_in",
     triggers |->
       [en |-> <<Lit("zoom in"), Lit("magnify"), Lit("enlarge")>>,
        es |-> <<Lit("zoom in"), Lit("ampliar"), Lit("agrandar")>>,
        fr |-> <<Lit("zoom avant"), Lit("agrandir")>>,
        de |-> <<Lit("zoom ein"), Lit("vergrößern")>>,
        it |-> <<Lit("zoom in"), Lit("ingrandire")>>,
        pt |-> <<Lit("zoom in"), Lit("ampliar")>>,
        zh |-> <<Lit("U+653E U+5927"), Lit("U+7F29 U+653E")>>,
        ja |-> <<Lit("U+30BA U+30FC U+30E0 U+30A4 U+30F3"), Lit("U+62E1 U+5927")>>],
     fuzzy_target |-> "zoom"]

pen_tool ==
    [cmd |-> "pen_tool",
     triggers |->
       [en |-> <<Lit("pen tool"), Lit("draw"), Lit("annotation")>>,
        es |-> <<Lit("herramienta pluma"), Lit("dibujar")>>,
        fr |-> <<Lit("outil stylo"), Lit("dessiner")>>,
        de |-> <<Lit("stiftwerkzeug"), Lit("zeichnen")>>,
        it |-> <<Lit("strumento penna"), Lit("disegnare")>>,
        pt |-> <<Lit("ferramenta caneta"), Lit("desenhar")>>,
        zh |-> <<Lit("U+7B14 U+5DE5 U+5177"), Lit("U+7ED8 U+5236")>>,
        ja |-> <<Lit("U+30DA U+30F3 U+30C4 U+30FC U+30EB"), Lit("U+63CF U+753B")>>],
     fuzzy_target |-> "pen"]

exit_program ==
    [cmd |-> "exit_program",
     triggers |->
       [en |-> <<Lit("terminate program"), Lit("kill system"), Lit("shutdown voice")>>,
        es |-> <<Lit("terminar programa"), Lit("apagar sistema")>>,
        fr |-> <<Lit("terminer programme"), Lit("arrêter système")>>,
        de |-> <<Lit("programm beenden"), Lit("system herunterfahren")>>,
        it |-> <<Lit("termina programma"), Lit("spegni sistema")>>,
        pt |-> <<Lit("encerrar programa"), Lit("desligar sistema")>>,
        zh |-> <<Lit("U+9000 U+51FA U+7A0B U+5E8F"), Lit("U+5173 U+95ED U+7CFB U+7EDF")>>,
        ja |-> <<Lit("U+30D7 U+30ED U+30B0 U+30E9 U+30E0 U+7D42 U+4E86"), Lit("U+30B7 U+30B9 U+30C6 U+30E0 U+7D42 U+4E86")>>],
     fuzzy_target |-> "exit"]

\* MULTILANG_COMMANDS, in the order the dict is written (and iterated)
MULTILANG_COMMANDS ==
    <<next_slide, prev_slide, jump_slide, start_show, end_show, blackout, zoom_in, pen_tool, exit_program>>

(***************************************************************************)
(* Regular expressions: re.compile(pattern, re.IGNORECASE).search(text)    *)
(***************************************************************************)
Char(s, i) == SubSeq(s, i, i)

UpperCase == "ABCDEFGHIJKLMNOPQRSTUVWXYZ"
LowerCase == "abcdefghijklmnopqrstuvwxyz"

\* case folding of re.IGNORECASE
Lower(c) ==
    IF \E i \in 1..Len(UpperCase) : Char(UpperCase, i) = c
    THEN Char(LowerCase, CHOOSE i \in 1..Len(UpperCase) : Char(UpperCase, i) = c)
    ELSE c

\* \s and \d
Whitespace == {" ", "\t"}
Digits == {"0", "1", "2", "3", "4", "5", "6", "7", "8", "9"}

Min(S) == CHOOSE x \in S : \A y \in S : x <= y
Max(S) == CHOOSE x \in S : \A y \in S : x >= y

\* the phrase w occurs in s at position i, letter case ignored
MatchesAt(s, i, w) ==
    /\ i + Len(w) - 1 <= Len(s)
    /\ \A k \in 1..Len(w) : Lower(Char(s, i + k - 1)) = Lower(Char(w, k))

\* \s*: the first position from j on that holds no whitespace
RECURSIVE SkipSpace(_, _)
SkipSpace(s, j) ==
    IF j <= Len(s) /\ Char(s, j) \in Whitespace THEN SkipSpace(s, j + 1) ELSE j

\* \d+: the position after the digits that start at j (j itself when there are none)
RECURSIVE DigitsEnd(_, _)
DigitsEnd(s, j) ==
    IF j <= Len(s) /\ Char(s, j) \in Digits THEN DigitsEnd(s, j + 1) ELSE j

\* alternative k of the pattern matches at position i
AltAt(re, s, i, k) ==
    /\ MatchesAt(s, i, re.alts[k])
    /\ re.digits =>
          LET j == SkipSpace(s, i + Len(re.alts[k])) IN DigitsEnd(s, j) > j

\* match(): a match at the start of the text only
MatchAtStart(re, s) ==
    LET ks == {a \in 1..Len(re.alts) : AltAt(re, s, 1, a)}
    IN  IF ks = {}
        THEN [found |-> FALSE, group |-> None]
        ELSE LET j == SkipSpace(s, 1 + Len(re.alts[Min(ks)]))
             IN  [found |-> TRUE,
                  group |-> IF re.digits THEN SubSeq(s, j, DigitsEnd(s, j) - 1) ELSE None]

\* search(): the leftmost match, the first alternative that matches there;
\* group is match.groups()[0]
Search(re, s) ==
    LET pos == {i \in 1..(Len(s) + 1) : \E k \in 1..Len(re.alts) : AltAt(re, s, i, k)}
    IN  IF pos = {}
        THEN [found |-> FALSE, group |-> None]
        ELSE LET i == Min(pos)
                 k == Min({a \in 1..Len(re.alts) : AltAt(re, s, i, a)})
                 j == SkipSpace(s, i + Len(re.alts[k]))
             IN  [found |-> TRUE,
                  group |-> IF re.digits THEN SubSeq(s, j, DigitsEnd(s, j) - 1) ELSE None]

(***************************************************************************)
(* _compile_patterns                                                       *)
(***************************************************************************)
RECURSIVE Flatten(_)
Flatten(ss) == IF ss = <<>> THEN <<>> ELSE Head(ss) \o Flatten(Tail(ss))

\* language in cmd_data: the command has trigger phrases for the language
HasLanguage(data, lang) == lang \in DOMAIN data.triggers

\* MultiLanguageDetector.get_patterns_for_language
get_patterns_for_language(lang, data) ==
    IF HasLanguage(data, lang) THEN data.triggers[lang] ELSE <<>>

\* a compilation that marks no pattern as capturing
NeverRegex(pattern) == FALSE

\* 'is_regex': r'(\d+)' in pattern
IsRegex(pattern) == pattern.digits

\* the entries appended for one command and one language
Compiled(data, lang) ==
    LET ps == get_patterns_for_language(lang, data)
    IN  [i \in 1..Len(ps) |->
            [re |-> ps[i], cmd |-> data.cmd, language |-> lang, is_regex |-> IsRegex(ps[i])]]

\* self.patterns: for cmd in catalog, for lang in SUPPORTED_LANGUAGES, for pattern
patterns ==
    Flatten([c \in 1..Len(MULTILANG_COMMANDS) |->
        Flatten([l \in 1..Len(SUPPORTED_LANGUAGES) |->
            Compiled(MULTILANG_COMMANDS[c], SUPPORTED_LANGUAGES[l])])])

(***************************************************************************)
(* fuzz.partial_ratio (thefuzz): the library call of the fuzzy stage,      *)
(* modelled on the library's definition: the best Indel similarity         *)
(* 2*LCS/(len+len) of the shorter string against the windows of the longer *)
(* one, as a percentage rounded to an integer.                             *)
(***************************************************************************)
\* one row of the longest-common-subsequence table; acc holds its cells
\* 0..j-1, prev is the row above
RECURSIVE LcsRow(_, _, _, _)
LcsRow(prev, x, b, acc) ==
    IF Len(acc) > Len(b) THEN acc
    ELSE LET j == Len(acc)
             v == IF x = Char(b, j) THEN prev[j] + 1
                  ELSE IF prev[j + 1] >= acc[j] THEN prev[j + 1] ELSE acc[j]
         IN  LcsRow(prev, x, b, Append(acc, v))

\* the table row by row; its last cell is the length sought
RECURSIVE LcsRows(_, _, _)
LcsRows(a, b, table) ==
    IF Len(table) > Len(a) THEN table[Len(table)][Len(b) + 1]
    ELSE LET i == Len(table)
         IN  LcsRows(a, b, Append(table, LcsRow(table[i], Char(a, i), b, <<0>>)))

LCS(a, b) == LcsRows(a, b, <<[j \in 1..(Len(b) + 1) |-> 0]>>)

\* round(): to the nearest integer, halves to the even one
Round(num, den) ==
    LET q == num \div den
        r == num % den
    IN  IF 2 * r < den THEN q
        ELSE IF 2 * r > den THEN q + 1
        ELSE IF q % 2 = 0 THEN q ELSE q + 1

\* fuzz.ratio of two strings, not both empty
Ratio(a, b) == Round(200 * LCS(a, b), Len(a) + Len(b))

\* the windows of l a string of length n is aligned with: the substrings of
\* length n, and the shorter ones at either end
Windows(l, n) ==
    {SubSeq(l, a, b) : a \in 1..Len(l), b \in 1..Len(l)} \cap
    {SubSeq(l, a, b) : <<a, b>> \in
        {w \in (1..Len(l)) \X (1..Len(l)) :
            /\ w[1] <= w[2]
            /\ \/ w[2] - w[1] + 1 = n
               \/ w[2] - w[1] + 1 < n /\ (w[1] = 1 \/ w[2] = Len(l))}}

Aligned(shorter, longer) ==
    Max({0} \cup {Ratio(shorter, w) : w \in Windows(longer, Len(shorter))})

partial_ratio(s1, s2) ==
    IF Len(s1) = 0 /\ Len(s2) = 0 THEN 100
    ELSE IF Len(s1) = 0 \/ Len(s2) = 0 THEN 0
    ELSE IF Len(s1) < Len(s2) THEN Aligned(s1, s2)
    ELSE IF Len(s1) > Len(s2) THEN Aligned(s2, s1)
    ELSE Max({Aligned(s1, s2), Aligned(s2, s1)})

(***************************************************************************)
(* match_command(text, language)                                           *)
(***************************************************************************)
\* the tuple (command, params, score, method)
Result(cmd, params, score, method) ==
    [cmd |-> cmd, params |-> params, score |-> score, method |-> method]

\* a scan that skips no pattern
AnyLanguage(p, lang) == TRUE

\* if p['language'] != language: continue
ForLanguage(p, lang) == p.language = lang

\* 1. the scan of self.patterns: the first pattern of the language that
\* matches returns; no match gives the reject tuple here
RegexStage(txt, lang) ==
    LET hits == {i \in 1..Len(patterns) :
                    ForLanguage(patterns[i], lang) /\ Search(patterns[i].re, txt).found}
    IN  IF hits = {} THEN Result(None, None, 0, None)
        ELSE LET p == patterns[Min(hits)]
                 match == Search(p.re, txt)
             IN  Result(p.cmd, IF p.is_regex THEN match.group ELSE None, 100, "Regex")

\* a loop that scores every command, anchored or not
AnchorAssumed(data) == TRUE

\* fuzzy_target = data.get('fuzzy_target'); if not fuzzy_target: continue
HasAnchor(data) == data.fuzzy_target # None /\ data.fuzzy_target # ""

\* if score > best_score
Better(score, best_score) == score > best_score

\* 2. the loop over the catalog that keeps best_cmd and best_score
RECURSIVE FuzzyStage(_, _, _, _, _)
FuzzyStage(txt, lang, c, best_cmd, best_score) ==
    IF c > Len(MULTILANG_COMMANDS) THEN [cmd |-> best_cmd, score |-> best_score]
    ELSE LET data == MULTILANG_COMMANDS[c] IN
         IF ~HasLanguage(data, lang) \/ ~HasAnchor(data)
         THEN FuzzyStage(txt, lang, c + 1, best_cmd, best_score)
         ELSE LET score == partial_ratio(data.fuzzy_target, txt) IN
              IF Better(score, best_score)
              THEN FuzzyStage(txt, lang, c + 1, data.cmd, score)
              ELSE FuzzyStage(txt, lang, c + 1, best_cmd, best_score)

\* if best_score >= self.config.FUZZY_THRESHOLD
Accepts(best_score, threshold) == best_score >= threshold

match_command(txt, lang) ==
    LET regex == RegexStage(txt, lang) IN
    IF regex.cmd # None THEN regex
    ELSE LET best == FuzzyStage(txt, lang, 1, None, 0) IN
         IF Accepts(best.score, FUZZY_THRESHOLD)
         THEN Result(best.cmd, None, best.score, "Fuzzy")
         ELSE Result(None, None, 0, None)

\* the transcripts handed to match_command
Texts ==
    {"next", "NEXT", "can you please go to the next one", "jump to slide 5",
     "go back to slide 3", "slide 12", "number 7", "go to slide", "Page  42!",
     "siguiente", "diapositiva 4", "zoom", "exit", "pen", "e", "nxt", "strt",
     "ggg", ""}

\* the values of Config.FUZZY_THRESHOLD (0-100; the default is 80)
Thresholds == {0, 80, 99, 100}

NoResult == Result("", "", 0, "")

\* no call of match_command made; the configuration is the default one
MatcherIdle ==
    /\ text = ""
    /\ language = "en"
    /\ FUZZY_THRESHOLD = 80
    /\ result = NoResult

MatchCommand ==
    /\ result = NoResult
    /\ result' = match_command(text, language)
    /\ UNCHANGED <<text, language, FUZZY_THRESHOLD>>
    /\ UNCHANGED <<bvars, cvars, evars>>

(***************************************************************************)
(* PowerPointControllerV53: run(), listen_loop(), execute()                *)
(***************************************************************************)
\* number of transcripts the listener recognises
MaxHeard == 3

\* the confidence recognize() reports for a recognised text (0.95), in percent
Recognized == 95

\* the transcripts the speech engine yields: lower-cased text, detected language
Heard == {"next", "nxt", "ggg", "exit"}

\* the language recognize() reports for a transcript: what the detector made
\* of the text
HeardLanguage(txt) == IF txt = "ggg" THEN "es" ELSE "en"

\* the tuple ('text', text, conf, source_type, lang) put on command_queue
Item(txt, conf, lang) == [text |-> txt, confidence |-> conf, lang |-> lang]

\* the items a direct caller passes to execute()
Calls == {Item(t, c, "en") : t \in Heard, c \in {69, 70, 95}}

\* the values of Config.LOG_CONFIDENCE_THRESHOLD (0.70 by default), in percent
LogThresholds == {70, 95, 96}

\* a dict without keys
EmptyMap == [k \in {} |-> 0]

\* d[k] = v
Store(d, k, v) == [x \in DOMAIN d \cup {k} |-> IF x = k THEN v ELSE d[x]]

\* defaultdict(int): a key not yet stored reads 0
Count(d, k) == IF k \in DOMAIN d THEN d[k] ELSE 0

\* a count that notes only that the key was seen
TallyOnce(d, k) == Store(d, k, 1)

\* d[k] += 1 on a defaultdict(int)
Tally(d, k) == Store(d, k, Count(d, k) + 1)

\* self.stats after __init__
NoStats == [total |-> 0, success |-> 0, fuzzy_rescues |-> 0, by_language |-> EmptyMap]

\* a summary made of the counts at construction
StaleSummary(st) == NoStats

\* the summary run() prints after the loop: the counts of self.stats
Summary(st) == st

\* a summary that prints no count
NoSummary == [total |-> -1, success |-> -1, fuzzy_rescues |-> -1]

\* the controller after __init__, run() not called
ControllerInit ==
    /\ running = TRUE
    /\ command_queue = <<>>
    /\ heard = 0
    /\ lpc = "none"
    /\ dpc = "start"
    /\ stats = NoStats
    /\ logged = <<>>
    /\ executed = <<>>
    /\ summary = NoSummary
    /\ cancelled = FALSE
    /\ confidence = 0

\* the default configuration, a microphone and an open presentation
ControllerIdle ==
    /\ ControllerInit
    /\ mic = TRUE
    /\ ppt = TRUE
    /\ ENABLE_TRAINING = TRUE
    /\ LOG_CONFIDENCE_THRESHOLD = 70

\* a check that finds a microphone whatever the machine has
MicAssumed == TRUE

\* check_microphone(): True iff a microphone is listed
check_microphone == mic

\* connect(): True iff an active presentation is found
connect == ppt

\* self.speech_engine is built only when ENABLE_TRAINING is set; without it
\* every pass of listen_loop ends in the logged "Listener Error"
HasSpeechEngine == ENABLE_TRAINING

\* run() is past its microphone check: the listener thread was started
Started == lpc # "none"

\* where execute() returns to: the loop of run(), or its direct caller
ReturnPoint == IF Started THEN "loop" ELSE "returned"

\* run(): the microphone check, connect() and the start of the listener thread
Start ==
    /\ dpc = "start"
    /\ IF ~check_microphone
       THEN /\ dpc' = "stopped"
            /\ UNCHANGED lpc
       ELSE \* a failed connect() only prints a warning
            /\ lpc' = "test"
            /\ dpc' = "loop"
    /\ UNCHANGED <<running, command_queue, heard, stats, logged, executed,
                   summary, cancelled, confidence, mic, ppt,
                   ENABLE_TRAINING, LOG_CONFIDENCE_THRESHOLD>>
    /\ UNCHANGED <<bvars, mvars, evars>>

\* listen_loop: the test of `while self.running`, then listen() and recognize()
ListenTest ==
    /\ lpc = "test"
    /\ IF running
       THEN /\ HasSpeechEngine
            /\ heard < MaxHeard
            /\ lpc' = "heard"
       ELSE lpc' = "done"
    /\ UNCHANGED <<running, command_queue, heard, dpc, stats, logged, executed,
                   summary, cancelled, confidence, mic, ppt,
                   ENABLE_TRAINING, LOG_CONFIDENCE_THRESHOLD>>
    /\ UNCHANGED <<bvars, mvars, evars>>

\* listen_loop: self.command_queue.put(('text', text, conf, source_type, lang))
ListenPut(txt) ==
    /\ lpc = "heard"
    /\ command_queue' = Append(command_queue,
                                Item(txt, Recognized, HeardLanguage(txt)))
    /\ heard' = heard + 1
    /\ lpc' = "test"
    /\ UNCHANGED <<running, dpc, stats, logged, executed,
                   summary, cancelled, confidence, mic, ppt,
                   ENABLE_TRAINING, LOG_CONFIDENCE_THRESHOLD>>
    /\ UNCHANGED <<bvars, mvars, evars>>

\* execute(): stats["total"] += 1, stats["by_language"][language] += 1 and
\* the call of match_command
ExecuteBegin(it) ==
    /\ stats' = [stats EXCEPT !.total = @ + 1,
                              !.by_language = Tally(@, it.lang)]
    /\ text' = it.text
    /\ language' = it.lang
    /\ confidence' = it.confidence
    /\ result' = match_command(it.text, it.lang)
    /\ dpc' = "log"
    /\ UNCHANGED FUZZY_THRESHOLD

\* run(): while self.running: item = self.command_queue.get(timeout=0.5);
\* self.execute(text, confidence, source_type, lang)
Dequeue ==
    /\ dpc = "loop"
    /\ running
    /\ command_queue # <<>>
    /\ command_queue' = Tail(command_queue)
    /\ ExecuteBegin(Head(command_queue))
    /\ UNCHANGED <<running, heard, lpc, logged, executed,
                   summary, cancelled, mic, ppt,
                   ENABLE_TRAINING, LOG_CONFIDENCE_THRESHOLD>>
    /\ UNCHANGED <<bvars, evars>>

\* execute() called directly, outside run()
Call(it) ==
    /\ dpc = "call"
    /\ ExecuteBegin(it)
    /\ UNCHANGED <<running, command_queue, heard, lpc, logged, executed,
                   summary, cancelled, mic, ppt,
                   ENABLE_TRAINING, LOG_CONFIDENCE_THRESHOLD>>
    /\ UNCHANGED <<bvars, evars>>

\* confidence > LOG_CONFIDENCE_THRESHOLD
AboveThreshold(conf) == conf > LOG_CONFIDENCE_THRESHOLD

\* confidence >= self.config.LOG_CONFIDENCE_THRESHOLD
MeetsThreshold(conf) == conf >= LOG_CONFIDENCE_THRESHOLD

\* the condition of "Log to training data"; self.training_logger exists iff
\* ENABLE_TRAINING is set
ShouldLog ==
    /\ ENABLE_TRAINING
    /\ MeetsThreshold(confidence)
    /\ result.cmd # None

\* AudioTextRecord.create(text, cmd, confidence, ...)
Record == [text |-> text, command_matched |-> result.cmd, confidence |-> confidence]

\* execute(): the training log, then `if not cmd: return`.  log_text has no
\* except clause: a storage error leaves execute() and run() as an exception
LogStep ==
    /\ dpc = "log"
    /\ IF ShouldLog
       THEN \E stored \in BOOLEAN :
              IF stored
              THEN /\ logged' = Append(logged, Record)
                   /\ dpc' = IF result.cmd = None THEN ReturnPoint ELSE "act"
              ELSE /\ dpc' = "raised"
                   /\ UNCHANGED logged
       ELSE /\ dpc' = IF result.cmd = None THEN ReturnPoint ELSE "act"
            /\ UNCHANGED logged
    /\ UNCHANGED <<running, command_queue, heard, lpc, stats, executed,
                   summary, cancelled, confidence, mic, ppt,
                   ENABLE_TRAINING, LOG_CONFIDENCE_THRESHOLD>>
    /\ UNCHANGED <<bvars, mvars, evars>>

\* str.isdigit() on the captured parameter
isdigit(s) == Len(s) > 0 /\ \A i \in 1..Len(s) : Char(s, i) \in Digits

\* what the action map can meet: the executor returns True or False, or an
\* exception is raised inside the try block; _shutdown returns or raises
Outcomes(cmd) ==
    IF cmd = "exit_program" THEN {"True", "raise"} ELSE {"True", "False", "raise"}

\* a count that takes every forwarded command for a success
CountedAnyway(cmd, params, outcome) == TRUE

\* if success or cmd == "exit_program", reached unless an exception was raised
Succeeded(cmd, params, outcome) ==
    /\ outcome # "raise"
    /\ \/ cmd = "exit_program"
       \/ outcome = "True" /\ (cmd = "jump_slide" => isdigit(params))

\* execute(): the action map and the success counts; exit_program runs
\* _shutdown, whose first statement is self.running = False
Act ==
    /\ dpc = "act"
    /\ \E outcome \in Outcomes(result.cmd) :
         LET ok == Succeeded(result.cmd, result.params, outcome) IN
         /\ executed' = Append(executed, [cmd |-> result.cmd, outcome |-> outcome])
         /\ running' = IF result.cmd = "exit_program" THEN FALSE ELSE running
         /\ stats' = [stats EXCEPT
                        !.success = IF ok THEN @ + 1 ELSE @,
                        !.fuzzy_rescues =
                            IF ok /\ result.method = "Fuzzy" THEN @ + 1 ELSE @]
    /\ dpc' = ReturnPoint
    /\ UNCHANGED <<command_queue, heard, lpc, logged,
                   summary, cancelled, confidence, mic, ppt,
                   ENABLE_TRAINING, LOG_CONFIDENCE_THRESHOLD>>
    /\ UNCHANGED <<bvars, mvars, evars>>

\* run(): `while self.running` found false; the summary is printed
LoopExit ==
    /\ dpc = "loop"
    /\ ~running
    /\ dpc' = "stopped"
    /\ summary' = Summary(stats)
    /\ UNCHANGED <<running, command_queue, heard, lpc, stats, logged, executed,
                   cancelled, confidence, mic, ppt,
                   ENABLE_TRAINING, LOG_CONFIDENCE_THRESHOLD>>
    /\ UNCHANGED <<bvars, mvars, evars>>

\* run(): except KeyboardInterrupt: self.running = False; the summary is printed
Interrupt ==
    /\ Started
    /\ dpc \in {"loop", "log", "act"}
    /\ running' = FALSE
    /\ cancelled' = TRUE
    /\ dpc' = "stopped"
    /\ summary' = Summary(stats)
    /\ UNCHANGED <<command_queue, heard, lpc, stats, logged, executed,
                   confidence, mic, ppt,
                   ENABLE_TRAINING, LOG_CONFIDENCE_THRESHOLD>>
    /\ UNCHANGED <<bvars, mvars, evars>>

(***************************************************************************)
(* MultiLanguageDetector: detect() and detect_batch()                      *)
(***************************************************************************)
\* number of texts handed to detect_batch
MaxBatch == 2

\* threads of the pool (Config.MAX_WORKERS is 4)
max_workers == 2

\* class Language(Enum), by value
Language == {"en", "es", "fr", "de", "it", "pt", "zh", "ja"}

\* LANGUAGE_CONFIGS: the code of every language is the value of its enum member
LANGUAGE_CONFIGS == [l \in Language |-> [code |-> l]]

\* the detectors __init__ can build: the configured one, and one whose primary
\* language is not among the supported ones
Detectors ==
    {[supported_languages |-> s[1], primary_language |-> s[2], parallel |-> p] :
        s \in {<<SUPPORTED_LANGUAGES, "en">>, <<(<<"zh", "en">>), "it">>},
        p \in BOOLEAN}

\* the texts of a batch: empty, one letter between blanks, two words
DetectTexts == {"", " a ", "next", "hola"}

\* every list of at most MaxBatch texts
Batches == UNION {[1..n -> DetectTexts] : n \in 0..MaxBatch}

\* how a call of langdetect.detect ends: with a language code, with
\* LangDetectException, or with another exception
Answers == {"en", "es", "zh-cn", "LangDetectException", "Exception"}

\* the classifier is a function of the text: its answer to a text is open
\* until the text is first asked about, and the same from then on
Asked(txt) == IF txt \in DOMAIN classified THEN {classified[txt]} ELSE Answers

RECURSIVE lstrip(_)
lstrip(s) ==
    IF s # "" /\ Char(s, 1) \in Whitespace THEN lstrip(SubSeq(s, 2, Len(s))) ELSE s

RECURSIVE rstrip(_)
rstrip(s) ==
    IF s # "" /\ Char(s, Len(s)) \in Whitespace
    THEN rstrip(SubSeq(s, 1, Len(s) - 1))
    ELSE s

\* str.strip()
strip(s) == rstrip(lstrip(s))

\* a test that lets through every text but the empty one
EmptyOnly(txt) == txt = ""

\* if not text or len(text.strip()) < 2
IsShort(txt) == txt = "" \/ Len(strip(txt)) < 2

\* a test that takes every string for a prefix
AnyPrefix(s, prefix) == TRUE

\* str.startswith
startswith(s, prefix) ==
    Len(prefix) <= Len(s) /\ SubSeq(s, 1, Len(prefix)) = prefix

\* for lang in self.supported_languages:
\*     if LANGUAGE_CONFIGS[lang].code == detected: return lang
RECURSIVE ExactMatch(_, _)
ExactMatch(langs, d) ==
    IF langs = <<>> THEN None
    ELSE IF LANGUAGE_CONFIGS[Head(langs)].code = d THEN Head(langs)
    ELSE ExactMatch(Tail(langs), d)

\* for lang in self.supported_languages:
\*     if LANGUAGE_CONFIGS[lang].code.startswith(detected[:2]): return lang
RECURSIVE PartialMatch(_, _)
PartialMatch(langs, d) ==
    IF langs = <<>> THEN None
    ELSE IF startswith(LANGUAGE_CONFIGS[Head(langs)].code,
                       SubSeq(d, 1, Min({2, Len(d)})))
         THEN Head(langs)
    ELSE PartialMatch(Tail(langs), d)

\* a call of detect not yet started
Pending == [state |-> "pending", language |-> "", confidence |-> 0]

\* a call of detect that returned (language, confidence), confidence in percent
Detected(lang, conf) == [state |-> "done", language |-> lang, confidence |-> conf]

\* a call of detect that an exception left
Raises == [state |-> "raised", language |-> "", confidence |-> 0]

\* a call of detect between the read and the write of self.stats[lang.value] += 1
Counting == [state |-> "counting", language |-> "", confidence |-> 0]

\* a thread that runs no call of detect
Resting == [task |-> 0, lang |-> "", seen |-> 0]

\* the threads that run detect: the pool, or the caller (thread 0)
Pool == IF detector.parallel THEN 1..max_workers ELSE {0}

\* the calls of detect not yet started; the pool and the list comprehension
\* both start them in the order of texts
Waiting == {i \in DOMAIN tasks : tasks[i].state = "pending"}

\* detect_batch before it is called
BatchRunning == [status |-> "running", value |-> <<>>]

\* a detector that was asked nothing
DetectorIdle ==
    /\ detector = [supported_languages |-> SUPPORTED_LANGUAGES,
                   primary_language |-> "en", parallel |-> TRUE]
    /\ texts = <<>>
    /\ dstats = EmptyMap
    /\ classified = EmptyMap
    /\ tasks = <<>>
    /\ workers = [w \in 0..max_workers |-> Resting]
    /\ batch = BatchRunning

\* detect(text) up to the read of self.stats: the length test, the classifier,
\* the two searches of supported_languages and the fallbacks
DetectBegin(w) ==
    /\ batch.status = "running"
    /\ w \in Pool
    /\ workers[w] = Resting
    /\ Waiting # {}
    /\ detector.parallel \/ \A i \in DOMAIN tasks : tasks[i].state # "raised"
    /\ LET i == Min(Waiting)
           txt == texts[i]
           primary == detector.primary_language
       IN  IF IsShort(txt)
           THEN /\ tasks' = [tasks EXCEPT ![i] = Detected(primary, 0)]
                /\ UNCHANGED <<classified, workers>>
           ELSE \E d \in Asked(txt) :
                  LET exact == ExactMatch(detector.supported_languages, d)
                      partial == PartialMatch(detector.supported_languages, d)
                  IN  /\ classified' = Store(classified, txt, d)
                      /\ IF d = "Exception"
                         THEN /\ tasks' = [tasks EXCEPT ![i] = Raises]
                              /\ UNCHANGED workers
                         ELSE IF d = "LangDetectException"
                         THEN /\ tasks' = [tasks EXCEPT ![i] = Detected(primary, 0)]
                              /\ UNCHANGED workers
                         ELSE IF exact # None
                         THEN /\ tasks' = [tasks EXCEPT ![i] = Counting]
                              /\ workers' = [workers EXCEPT ![w] =
                                    [task |-> i, lang |-> exact,
                                     seen |-> Count(dstats, exact)]]
                         ELSE /\ tasks' = [tasks EXCEPT ![i] =
                                    IF partial # None THEN Detected(partial, 85)
                                    ELSE Detected(primary, 50)]
                              /\ UNCHANGED workers
    /\ UNCHANGED <<detector, texts, dstats, batch>>
    /\ UNCHANGED <<bvars, mvars, cvars, tvars, pvars, svars>>

\* detect(text): the write of self.stats[lang.value] += 1 and return lang, 0.95
DetectCount(w) ==
    /\ w \in Pool
    /\ workers[w] # Resting
    /\ dstats' = Store(dstats, workers[w].lang, workers[w].seen + 1)
    /\ tasks' = [tasks EXCEPT ![workers[w].task] = Detected(workers[w].lang, 95)]
    /\ workers' = [workers EXCEPT ![w] = Resting]
    /\ UNCHANGED <<detector, texts, classified, batch>>
    /\ UNCHANGED <<bvars, mvars, cvars, tvars, pvars, svars>>

\* a pool that hands the results back last text first
Reversed ==
    [i \in DOMAIN tasks |->
        [language |-> tasks[Len(tasks) + 1 - i].language,
         confidence |-> tasks[Len(tasks) + 1 - i].confidence]]

\* list(executor.map(self.detect, texts)), [self.detect(t) for t in texts]:
\* the results in the order of texts
Gathered ==
    [i \in DOMAIN tasks |->
        [language |-> tasks[i].language, confidence |-> tasks[i].confidence]]

\* detect_batch returns the list, or the first exception of a call leaves it
DetectBatchEnd ==
    /\ batch.status = "running"
    /\ \A w \in Pool : workers[w] = Resting
    /\ IF \E i \in DOMAIN tasks : tasks[i].state = "raised"
       THEN batch' = [status |-> "raised", value |-> <<>>]
       ELSE /\ Waiting = {}
            /\ batch' = [status |-> "returned", value |-> Gathered]
    /\ UNCHANGED <<detector, texts, dstats, classified, tasks, workers>>
    /\ UNCHANGED <<bvars, mvars, cvars, tvars, pvars, svars>>

(***************************************************************************)
(* AudioTextRecord.create and AdvancedTrainingDataLogger                   *)
(***************************************************************************)
\* readings of the wall clock
MaxNow == 2

\* calls of log_text
MaxLogged == 3

\* the arguments of create: text, command, confidence in percent, language
LogInputs ==
    {<<"back", "prev_slide", 50, "en">>,
     <<"next", "next_slide", 80, "es">>,
     <<"next", "next_slide", 90, "en">>}

\* the thresholds export_training_set is called with, in percent
ExportThresholds == {50, 80, 85}

\* hashlib.sha256(f"{text}{command}{time.time()}").hexdigest()[:16]: the id is
\* a function of the formatted string, taken to be one-to-one on it
record_id(txt, command, t) == txt \o command \o ToString(t)

\* AudioTextRecord.create(text, command, confidence, language): time.time()
\* read t goes into the id, datetime.now() read stamp is the timestamp; serial
\* tells apart the calls of create and is no field of the record
create(in, t, stamp, n) ==
    [id |-> record_id(in[1], in[2], t), text |-> in[1], command_matched |-> in[2],
     confidence |-> in[3], timestamp |-> stamp, language |-> in[4], serial |-> n]

\* get_statistics not yet called
NoStatistics == [total_entries |-> -1, by_language |-> EmptyMap, by_command |-> EmptyMap]

\* export_training_set not yet called
NoExport ==
    [metadata |-> [total_examples |-> -1, confidence_threshold |-> -1],
     training_examples |-> <<>>]

\* the logger after _init_db on an empty directory; no record created
LoggerIdle ==
    /\ wallclock = 1
    /\ created = 0
    /\ db = EmptyMap
    /\ jsonl = <<>>
    /\ statistics = NoStatistics
    /\ export = NoExport

\* INSERT OR IGNORE: a stored row is kept
InsertOrIgnore(table, r) == IF r.id \in DOMAIN table THEN table ELSE Store(table, r.id, r)

\* INSERT OR REPLACE INTO training_data_v53, id being the primary key
InsertOrReplace(table, r) == Store(table, r.id, r)

\* log_text(record): the row, the commit, then the line appended to the JSONL file
log_text(r) ==
    /\ db' = InsertOrReplace(db, r)
    /\ jsonl' = Append(jsonl, r)

\* a record is created and logged, as execute() does.  The clock may move
\* between the two readings of create; create has no other effect, so a record
\* created earlier and logged now is the same call on a clock that stood still
LogCreated(in) ==
    /\ Len(jsonl) < MaxLogged
    /\ \E later \in {wallclock, wallclock + 1} :
         /\ later <= MaxNow
         /\ log_text(create(in, wallclock, later, created + 1))
         /\ wallclock' = later
    /\ created' = created + 1
    /\ UNCHANGED <<statistics, export>>
    /\ UNCHANGED <<bvars, mvars, cvars, dvars, pvars, svars>>

\* log_text on a record that was logged before
LogAgain(i) ==
    /\ Len(jsonl) < MaxLogged
    /\ i \in DOMAIN jsonl
    /\ log_text(jsonl[i])
    /\ UNCHANGED <<wallclock, created, statistics, export>>
    /\ UNCHANGED <<bvars, mvars, cvars, dvars, pvars, svars>>

\* a count of the lines of the JSONL file instead of the rows of the table
CountLines(column) ==
    [v \in {jsonl[i][column] : i \in DOMAIN jsonl} |->
        Cardinality({i \in DOMAIN jsonl : jsonl[i][column] = v})]

\* SELECT column, COUNT(*) FROM training_data_v53 GROUP BY column
GroupBy(column) ==
    [v \in {db[i][column] : i \in DOMAIN db} |->
        Cardinality({i \in DOMAIN db : db[i][column] = v})]

\* get_statistics(): the counts of the table
get_statistics ==
    [total_entries |-> Cardinality(DOMAIN db),
     by_language |-> GroupBy("language"),
     by_command |-> GroupBy("command_matched")]

GetStatistics ==
    /\ statistics' = get_statistics
    /\ UNCHANGED <<wallclock, created, db, jsonl, export>>
    /\ UNCHANGED <<bvars, mvars, cvars, dvars, pvars, svars>>

\* WHERE confidence >= ?
Selected(threshold) == {i \in DOMAIN db : db[i].confidence >= threshold}

\* ORDER BY timestamp DESC: every order of the selected rows in which no row
\* comes before a row with a later timestamp
Ordered(ids) ==
    {s \in [1..Cardinality(ids) -> ids] :
        /\ \A i, j \in DOMAIN s : i # j => s[i] # s[j]
        /\ \A i, j \in DOMAIN s : i < j => db[s[i]].timestamp >= db[s[j]].timestamp}

\* the dict built from a row of the cursor
Example(row) ==
    [text |-> row.text, label |-> row.command_matched, confidence |-> row.confidence,
     timestamp |-> row.timestamp, language |-> row.language]

\* export_training_set(output_path, threshold)
ExportTrainingSet(threshold) ==
    /\ \E s \in Ordered(Selected(threshold)) :
         export' = [metadata |-> [total_examples |-> Len(s),
                                  confidence_threshold |-> threshold],
                    training_examples |-> [i \in DOMAIN s |-> Example(db[s[i]])]]
    /\ UNCHANGED <<wallclock, created, db, jsonl, statistics>>
    /\ UNCHANGED <<bvars, mvars, cvars, dvars, pvars, svars>>

(***************************************************************************)
(* yot_presentation.py: VoiceControlledPowerPoint.process_command          *)
(***************************************************************************)
\* calls of process_command
MaxCalls == 3

\* the "commands" maps a config.json can hold: the one of the tests, and one
\* with a key that is not in lower case
Configs ==
    {[k \in {"next", "previous"} |-> IF k = "next" THEN "Right" ELSE "Left"],
     [k \in {"next", "Stop"} |-> IF k = "next" THEN "Right" ELSE "Escape"]}

\* the texts the recogniser hands over
Spoken == {"next", "NEXT", "Next", " next ", "previous", "stop", "Stop", "nextt", ""}

\* str.lower()
RECURSIVE lower(_)
lower(s) == IF s = "" THEN "" ELSE Lower(Char(s, 1)) \o lower(SubSeq(s, 2, Len(s)))

\* a lookup of the text as it was recognised
Verbatim(s) == s

\* text.lower().strip()
Normalize(s) == strip(lower(s))

\* number of monitoring threads start() can make
MaxStarts == 2

\* self.monitoring_thread = None
NoMonitor == 0

\* what the recogniser hands to a monitoring thread
Recognised == {"next", "stop"}

\* __init__: self.running = False; self.monitoring_thread = None
MonitorIdle ==
    /\ monitoring = FALSE
    /\ monitoring_thread = NoMonitor
    /\ thread = [i \in 1..MaxStarts |-> "unborn"]
    /\ main = "idle"

\* the controller after __init__ with the configuration of the tests
LegacyIdle ==
    /\ commands = [k \in {"next", "previous"} |-> IF k = "next" THEN "Right" ELSE "Left"]
    /\ keypresses = <<>>
    /\ processed = <<>>
    /\ MonitorIdle

\* the body of process_command(text)
process_command(txt) ==
    /\ Len(processed) < MaxCalls
    /\ LET key == Normalize(txt)
       IN  IF key \in DOMAIN commands
           THEN /\ keypresses' = Append(keypresses, commands[key])
                /\ processed' = Append(processed, [text |-> txt, returned |-> TRUE])
           ELSE /\ processed' = Append(processed, [text |-> txt, returned |-> FALSE])
                /\ UNCHANGED keypresses
    /\ UNCHANGED commands

\* process_command(text) called directly
ProcessCommand(txt) ==
    /\ process_command(txt)
    /\ UNCHANGED <<bvars, mvars, cvars, dvars, tvars, svars>>

\* the monitoring threads that have been started and have not ended
Alive == {i \in 1..MaxStarts : thread[i] \in {"test", "listen"}}

\* start(): returns at once when self.running is set; otherwise sets it,
\* makes a new thread on listen_and_execute and starts it
StartMonitoring ==
    /\ main = "idle"
    /\ IF monitoring
       THEN UNCHANGED <<monitoring, monitoring_thread, thread>>
       ELSE \E i \in 1..MaxStarts :
              /\ thread[i] = "unborn"
              /\ \A j \in 1..(i - 1) : thread[j] # "unborn"
              /\ monitoring' = TRUE
              /\ monitoring_thread' = i
              /\ thread' = [thread EXCEPT ![i] = "test"]
    /\ UNCHANGED main
    /\ UNCHANGED <<bvars, mvars, cvars, dvars, tvars, pvars>>

\* stop(): returns at once when self.running is clear; otherwise clears it
\* and goes on to the join
StopMonitoring ==
    /\ main = "idle"
    /\ IF ~monitoring
       THEN UNCHANGED <<monitoring, main>>
       ELSE /\ monitoring' = FALSE
            /\ main' = IF monitoring_thread # NoMonitor THEN "join" ELSE "idle"
    /\ UNCHANGED <<monitoring_thread, thread>>
    /\ UNCHANGED <<bvars, mvars, cvars, dvars, tvars, pvars>>

\* stop(): self.monitoring_thread.join(timeout=THREAD_SHUTDOWN_TIMEOUT_SECONDS)
\* returns when the thread has ended, or when the timeout has passed while
\* the thread is inside listen(), recognize_google() or a sleep; a thread
\* found alive only gets a warning printed
JoinMonitoring ==
    /\ main = "join"
    /\ thread[monitoring_thread] \in {"ended", "listen"}
    /\ main' = "idle"
    /\ UNCHANGED <<monitoring, monitoring_thread, thread>>
    /\ UNCHANGED <<bvars, mvars, cvars, dvars, tvars, pvars>>

\* listen_and_execute: the test of `while self.running`
ListenAndExecuteTest(i) ==
    /\ thread[i] = "test"
    /\ thread' = [thread EXCEPT ![i] = IF monitoring THEN "listen" ELSE "ended"]
    /\ UNCHANGED <<monitoring, monitoring_thread, main>>
    /\ UNCHANGED <<bvars, mvars, cvars, dvars, tvars, pvars>>

\* listen_and_execute: listen() and recognize_google() yield a text, which
\* goes to process_command
ListenAndExecute(i, txt) ==
    /\ thread[i] = "listen"
    /\ process_command(txt)
    /\ thread' = [thread EXCEPT ![i] = "test"]
    /\ UNCHANGED <<monitoring, monitoring_thread, main>>
    /\ UNCHANGED <<bvars, mvars, cvars, dvars, tvars>>

\* listen_and_execute: no speech within the timeout, unintelligible speech
\* or an error; the loop goes round
ListenAndExecutePass(i) ==
    /\ thread[i] = "listen"
    /\ thread' = [thread EXCEPT ![i] = "test"]
    /\ UNCHANGED <<monitoring, monitoring_thread, main>>
    /\ UNCHANGED <<bvars, mvars, cvars, dvars, tvars, pvars>>

(***************************************************************************)
(* Specifications                                                          *)
(***************************************************************************)
Init ==
    /\ BufferInit
    /\ MatcherIdle
    /\ ControllerIdle
    /\ DetectorIdle
    /\ LoggerIdle
    /\ LegacyIdle

Next ==
    \/ Tick
    \/ \E t \in Threads, in \in Inputs : AddInput(t, in[1], in[2])
    \/ \E t \in Threads : AddEvict(t)
    \/ \E t \in Threads : AddRetry(t)
    \/ \E t \in Threads : GetNext(t)
    \/ \E t \in Threads : GetPop(t)
    \/ \E t \in Threads : Flush(t)
    \/ \E t \in Threads : FlushTest(t)
    \/ \E t \in Threads : FlushGet(t)

Spec == Init /\ [][Next]_vars

\* one caller at a time: every call runs to its end before the next starts
SeqNext ==
    \/ Tick
    \/ \E in \in Inputs : AddInput("t1", in[1], in[2])
    \/ AddEvict("t1")
    \/ AddRetry("t1")
    \/ GetNext("t1")
    \/ GetPop("t1")
    \/ Flush("t1")
    \/ FlushTest("t1")
    \/ FlushGet("t1")

SeqSpec == Init /\ [][SeqNext]_vars

\* one producer thread in add_input beside one consumer thread in get_next
DuoNext ==
    \/ Tick
    \/ \E in \in Inputs : AddInput("t1", in[1], in[2])
    \/ AddEvict("t1")
    \/ AddRetry("t1")
    \/ GetNext("t2")
    \/ GetPop("t2")

DuoSpec == Init /\ [][DuoNext]_vars

\* one call of match_command on any text, language and threshold
MatchInit ==
    /\ BufferInit
    /\ text \in Texts
    /\ language \in Languages
    /\ FUZZY_THRESHOLD \in Thresholds
    /\ result = NoResult
    /\ ControllerIdle
    /\ DetectorIdle
    /\ LoggerIdle
    /\ LegacyIdle

MatchNext == MatchCommand

MatchSpec == MatchInit /\ [][MatchNext]_vars

\* run() on a machine with or without a microphone and an open presentation,
\* under a configuration with or without training
RunInit ==
    /\ BufferInit
    /\ MatcherIdle
    /\ ControllerInit
    /\ mic \in BOOLEAN
    /\ ppt \in BOOLEAN
    /\ ENABLE_TRAINING \in BOOLEAN
    /\ LOG_CONFIDENCE_THRESHOLD \in LogThresholds
    /\ DetectorIdle
    /\ LoggerIdle
    /\ LegacyIdle

RunNext ==
    \/ Start
    \/ ListenTest
    \/ \E txt \in Heard : ListenPut(txt)
    \/ Dequeue
    \/ LogStep
    \/ Act
    \/ LoopExit
    \/ Interrupt

RunSpec == RunInit /\ [][RunNext]_vars

\* one direct call of execute(text, confidence, source_type, language)
ExecInit ==
    /\ BufferInit
    /\ MatcherIdle
    /\ running = TRUE
    /\ command_queue = <<>>
    /\ heard = 0
    /\ lpc = "none"
    /\ dpc = "call"
    /\ stats = NoStats
    /\ logged = <<>>
    /\ executed = <<>>
    /\ summary = NoSummary
    /\ cancelled = FALSE
    /\ confidence = 0
    /\ mic = TRUE
    /\ ppt = TRUE
    /\ ENABLE_TRAINING \in BOOLEAN
    /\ LOG_CONFIDENCE_THRESHOLD \in LogThresholds
    /\ DetectorIdle
    /\ LoggerIdle
    /\ LegacyIdle

ExecNext ==
    \/ \E it \in Calls : Call(it)
    \/ LogStep
    \/ Act

ExecSpec == ExecInit /\ [][ExecNext]_vars

\* one call of detect_batch, by the pool or by the caller alone; a batch of one
\* text without the pool is a call of detect
DetectInit ==
    /\ BufferInit
    /\ MatcherIdle
    /\ ControllerIdle
    /\ LoggerIdle
    /\ LegacyIdle
    /\ detector \in Detectors
    /\ texts \in Batches
    /\ dstats = EmptyMap
    /\ classified = EmptyMap
    /\ tasks = [i \in 1..Len(texts) |-> Pending]
    /\ workers = [w \in 0..max_workers |-> Resting]
    /\ batch = BatchRunning

DetectNext ==
    \/ \E w \in 0..max_workers : DetectBegin(w)
    \/ \E w \in 0..max_workers : DetectCount(w)
    \/ DetectBatchEnd

DetectSpec == DetectInit /\ [][DetectNext]_vars

\* records created and logged, statistics and exports asked for, by one thread
LogInit ==
    /\ BufferInit
    /\ MatcherIdle
    /\ ControllerIdle
    /\ DetectorIdle
    /\ LoggerIdle
    /\ LegacyIdle

LogNext ==
    \/ \E in \in LogInputs : LogCreated(in)
    \/ \E i \in 1..MaxLogged : LogAgain(i)
    \/ GetStatistics
    \/ \E threshold \in ExportThresholds : ExportTrainingSet(threshold)

LogSpec == LogInit /\ [][LogNext]_vars

\* calls of process_command under one of the configurations
LegacyInit ==
    /\ BufferInit
    /\ MatcherIdle
    /\ ControllerIdle
    /\ DetectorIdle
    /\ LoggerIdle
    /\ commands \in Configs
    /\ keypresses = <<>>
    /\ processed = <<>>
    /\ MonitorIdle

LegacyNext == \E txt \in Spoken : ProcessCommand(txt)

LegacySpec == LegacyInit /\ [][LegacyNext]_vars

\* start() and stop() called in any order by one caller, beside the
\* monitoring threads they make
MonitorNext ==
    \/ StartMonitoring
    \/ StopMonitoring
    \/ JoinMonitoring
    \/ \E i \in 1..MaxStarts : ListenAndExecuteTest(i)
    \/ \E i \in 1..MaxStarts, txt \in Recognised : ListenAndExecute(i, txt)
    \/ \E i \in 1..MaxStarts : ListenAndExecutePass(i)

MonitorSpec == Init /\ [][MonitorNext]_vars

(***************************************************************************)
(* Properties of the input buffer                                          *)
(***************************************************************************)
Ids(q) == {x.id : x \in q}
ReturnedIds == {returned[i].id : i \in 1..Len(returned)}
TimesReturned(id) == Cardinality({i \in 1..Len(returned) : returned[i].id = id})
AllIdle == \A t \in Threads : pc[t] = "idle"

\* x has the numerically highest priority in q and, among those, the earliest arrival
HighestEarliest(x, q) ==
    \A y \in q : x.priority > y.priority \/ (x.priority = y.priority /\ x.time <= y.time)

\* x has the numerically lowest priority in q and, among those, the oldest arrival
LowestOldest(x, q) ==
    \A y \in q : x.priority < y.priority \/ (x.priority = y.priority /\ x.time <= y.time)

\* C1: when the gate is open and the queue is non-empty, get_next returns the
\* payload of the queued entry with the numerically highest priority (earliest
\* arrival among equal priorities) and removes that entry.
C1_HighestPriorityFirst ==
    [][\A t \in Threads :
          (pc[t] = "gn_pop" /\ pc'[t] = "idle" /\ queue # {}) =>
              \E x \in queue : /\ HighestEarliest(x, queue)
                               /\ queue' = queue \ {x}
                               /\ ret' = [op |-> "get_next", val |-> x.command]]_vars

C3_Debounce ==
    \A i, j \in 1..Len(returned) :
        i < j => returned[j].now - returned[i].now >= debounce_ms

\* two payloads returned exactly one debounce interval apart
C3_Witness ==
    /\ Len(returned) >= 2
    /\ returned[2].now - returned[1].now = debounce_ms

\* match_command has returned
Answered == result # NoResult

\* the triggers of command c that are registered for the language of the call
Registered(c) ==
    IF \E l \in 1..Len(SUPPORTED_LANGUAGES) : SUPPORTED_LANGUAGES[l] = language
    THEN MULTILANG_COMMANDS[c].triggers[language]
    ELSE <<>>

\* the registered triggers of command c that match somewhere in the text
Matching(c) == {k \in 1..Len(Registered(c)) : Search(Registered(c)[k], text).found}

\* the commands with a matching trigger, and the first of them
CommandsHit == {c \in 1..Len(MULTILANG_COMMANDS) : Matching(c) # {}}
FirstHit == Min(CommandsHit)

\* the first matching pattern in registration order
WinningPattern == Registered(FirstHit)[Min(Matching(FirstHit))]

\* a non-empty string of decimal digits
IsInteger(s) == Len(s) > 0 /\ \A i \in 1..Len(s) : Char(s, i) \in Digits

\* s occurs in the text
Captured(s) == \E a \in 1..Len(text) : \E b \in a..Len(text) : SubSeq(text, a, b) = s

\* C4: when a pattern registered for the language matches somewhere in the
\* text, the result is the command of the first such pattern in registration
\* order (catalog order, then pattern order), with score 100 and method Regex;
\* the patterns of other languages are not consulted, so without such a
\* pattern the method is not Regex.
C4_FirstPatternWins ==
    Answered =>
        IF CommandsHit # {}
        THEN /\ result.cmd = MULTILANG_COMMANDS[FirstHit].cmd
             /\ result.score = 100
             /\ result.method = "Regex"
        ELSE result.method # "Regex"

\* "go back to slide 3" matches a prev_slide and a jump_slide pattern of English:
\* the earlier one wins
C4_Witness ==
    /\ text = "go back to slide 3"
    /\ language = "en"
    /\ Cardinality(CommandsHit) >= 2
    /\ result = Result("prev_slide", None, 100, "Regex")

\* the commands that must only match exactly: those without a fuzzy anchor
Parametric(cmd) ==
    \E c \in 1..Len(MULTILANG_COMMANDS) :
        /\ MULTILANG_COMMANDS[c].cmd = cmd
        /\ MULTILANG_COMMANDS[c].fuzzy_target = None

\* C5: for every text, language and threshold, a command without a fuzzy
\* anchor (jump_slide) is never returned with method Fuzzy: it is returned
\* only with method Regex and a captured integer.
C5_ParametricOnlyRegex ==
    (result.cmd = "jump_slide" \/ Parametric(result.cmd)) =>
        /\ result.method = "Regex"
        /\ IsInteger(result.params)

\* jump_slide returned for a Spanish text
C5_Witness ==
    /\ text = "diapositiva 4"
    /\ language = "es"
    /\ result = Result("jump_slide", "4", 100, "Regex")

\* the commands the fuzzy stage scores, and their anchor scores
Anchored ==
    {c \in 1..Len(MULTILANG_COMMANDS) :
        /\ language \in DOMAIN MULTILANG_COMMANDS[c].triggers
        /\ MULTILANG_COMMANDS[c].fuzzy_target # None}
AnchorScore(c) == partial_ratio(MULTILANG_COMMANDS[c].fuzzy_target, text)
BestScore == Max({AnchorScore(c) : c \in Anchored})
BestCommand == Min({c \in Anchored : AnchorScore(c) = BestScore})

\* C6: when no pattern of the language matches, the result is (c, None, s,
\* Fuzzy) with s the greatest anchor score and c the first command in catalog
\* order that attains it, provided s >= FUZZY_THRESHOLD; otherwise it is
\* exactly (None, None, 0, None).
C6_FuzzyStage ==
    (Answered /\ CommandsHit = {}) =>
        IF BestScore >= FUZZY_THRESHOLD
        THEN result = Result(MULTILANG_COMMANDS[BestCommand].cmd, None, BestScore, "Fuzzy")
        ELSE result = Result(None, None, 0, None)

\* the fuzzy stage as C6 states it, wherever some anchor scores above 0
C6_PositiveScores ==
    (Answered /\ CommandsHit = {} /\ BestScore > 0) =>
        IF BestScore >= FUZZY_THRESHOLD
        THEN result = Result(MULTILANG_COMMANDS[BestCommand].cmd, None, BestScore, "Fuzzy")
        ELSE result = Result(None, None, 0, None)

\* the call of C7's example has returned
PoliteRequest ==
    /\ text = "can you please go to the next one"
    /\ language = "en"
    /\ Answered

\* C7 as stated: the example is not resolved by the regex stage, resolves to
\* next_slide by Fuzzy when the score reaches the threshold, and is rejected
\* with the threshold at 99.
C7_ResolvedByFuzzy ==
    PoliteRequest =>
        /\ result.method # "Regex"
        /\ result.cmd # None => result = Result("next_slide", None, result.score, "Fuzzy")
        /\ FUZZY_THRESHOLD = 99 => result.cmd = None

\* C7: match('can you please go to the next one', ENGLISH) is resolved by the
\* regex stage, which finds the trigger "next" inside the text: the result is
\* (next_slide, None, 100, Regex) whatever the threshold, 99 included.
C7_ResolvedByRegex ==
    PoliteRequest => result = Result("next_slide", None, 100, "Regex")

\* the example answered with the threshold at 99
C7_Witness ==
    /\ PoliteRequest
    /\ FUZZY_THRESHOLD = 99
    /\ result.cmd = "next_slide"

\* C8: a result carries a parameter iff the winning pattern is parametric and
\* the method is Regex; the parameter is then a non-empty string of decimal
\* digits captured from the text, and every Fuzzy result has parameter None.
C8_Parameter ==
    Answered =>
        /\ result.params # None <=>
               (result.method = "Regex" /\ CommandsHit # {} /\ WinningPattern.digits)
        /\ result.params # None => IsInteger(result.params) /\ Captured(result.params)
        /\ result.method = "Fuzzy" => result.params = None

\* match('jump to slide 5', ENGLISH) = (jump_slide, '5', 100, Regex)
C8_Witness ==
    /\ text = "jump to slide 5"
    /\ language = "en"
    /\ result = Result("jump_slide", "5", 100, "Regex")

\* C9: the queue never holds more than buffer_size entries.
C9_Bounded == Cardinality(queue) <= buffer_size

\* the buffer is full again while a caller that evicted is about to retry its put
C9_Witness ==
    /\ Cardinality(queue) = buffer_size
    /\ evicted # {}
    /\ \E t \in Threads : pc[t] = "add_put2"

\* every stored entry is in exactly one place
C10_OnePlace ==
    /\ Ids(queue) \cup ReturnedIds \cup evicted \cup flushed \subseteq 1..added
    /\ \A id \in 1..added :
          /\ Cardinality({x \in queue : x.id = id}) <= 1
          /\ (IF id \in Ids(queue) THEN 1 ELSE 0) + TimesReturned(id)
               + (IF id \in evicted THEN 1 ELSE 0)
               + (IF id \in flushed THEN 1 ELSE 0) = 1

\* a get_next that returns a payload returns that of a queued entry and records it
C10_PopStep ==
    \A t \in Threads :
        (pc[t] = "gn_pop" /\ pc'[t] = "idle" /\ ret'.val # "None") =>
            /\ Len(returned') = Len(returned) + 1
            /\ \E x \in queue : /\ x.command = ret'.val
                                /\ x.id = returned'[Len(returned')].id

\* C10: every entry add_input stored is at every moment exactly one of queued,
\* returned by exactly one get_next, evicted or flushed; get_next never returns
\* an entry twice nor a payload that is not that of a stored entry.
C10_Lifecycle == []C10_OnePlace /\ [][C10_PopStep]_vars

\* one entry returned, one evicted and one flushed
C10_Witness == returned # <<>> /\ evicted # {} /\ flushed # {}

\* C11: add_input never blocks and never raises: under every interleaving of
\* add_input, get_next and flush callers every add_input call returns True or
\* False.
C11_NeverRaises ==
    ret.op = "add_input" => ret.val \in {"True", "False"}

\* thread t takes a step of an add_input or of a flush call
AddOrFlushStep(t) ==
    \/ pc[t] = "idle" /\ pc'[t] \in {"add_evict", "fl_test"}
    \/ pc[t] \in {"add_evict", "add_put2", "fl_test", "fl_get"} /\ pc'[t] # pc[t]

\* a call of add_input that starts and ends in one step: its first put stores
FirstPutStep == pc' = pc /\ added' = added + 1

\* C12: add_input, get_next and flush are mutually exclusive: no step of an
\* add_input or flush call is taken while another thread is between the start
\* and the end of a get_next, add_input or flush call.
C12_MutualExclusion ==
    [][/\ \A t \in Threads :
             AddOrFlushStep(t) => \A u \in Threads \ {t} : pc[u] = "idle"
       /\ FirstPutStep => \A u \in Threads : pc[u] = "idle"]_vars

\* the loop states of run()
Running == Started /\ dpc \in {"loop", "log", "act"} /\ running
Stopped == dpc = "stopped"

\* the main thread takes the log step of execute() without a cancellation
LogStepTaken == dpc = "log" /\ dpc' # "log" /\ ~cancelled'

\* C13: if log_text fails for an accepted item, the dispatch loop is not
\* aborted and the resolved command of that item is still forwarded to the
\* executor: a log step that stores nothing for an item with a command goes
\* on to the action map.
C13_LogFailureTolerated ==
    [][(LogStepTaken /\ result.cmd # None /\ logged' = logged) => dpc' = "act"]_vars

\* C14: execute logs a record for an item iff training is enabled, a command
\* was resolved and confidence >= LOG_CONFIDENCE_THRESHOLD; the record is that
\* of the item; an item without a command is never logged and never reaches
\* the executor.
C14_LogsIff ==
    /\ dpc \in {"act", "returned", "raised"} =>
          ((logged # <<>> \/ dpc = "raised") <=>
              (/\ ENABLE_TRAINING
               /\ result.cmd # None
               /\ confidence >= LOG_CONFIDENCE_THRESHOLD))
    /\ logged # <<>> =>
          logged = <<[text |-> text, command_matched |-> result.cmd,
                      confidence |-> confidence]>>
    /\ executed # <<>> => (result.cmd # None /\ executed[1].cmd = result.cmd)
    /\ result.cmd = None => (logged = <<>> /\ executed = <<>> /\ dpc # "act")

\* an item with a command logged at the boundary confidence
C14_Witness ==
    /\ dpc = "returned"
    /\ confidence = LOG_CONFIDENCE_THRESHOLD
    /\ Len(logged) = 1
    /\ Len(executed) = 1

\* an item resolved to exit_program and its execute() has ended
ExitDone == result.cmd = "exit_program" /\ dpc \notin {"log", "act"}

\* nothing is dequeued, matched, logged or executed in this step
NothingProcessed ==
    /\ UNCHANGED <<stats, logged, executed, result, text>>
    /\ Len(command_queue') >= Len(command_queue)

\* C15: once an item resolves to exit_program the loop leaves RUNNING: running
\* becomes False, and no item still queued or arriving later is dequeued,
\* matched, logged or executed.
C15_ExitStops ==
    /\ [](ExitDone => (~running /\ ~Running))
    /\ [][ExitDone => NothingProcessed]_vars

\* C16: without a microphone run() goes straight to STOPPED: no listener is
\* started and nothing is dequeued, matched, logged or executed; RUNNING is
\* entered only after the check succeeds, and with a microphone it is entered
\* whether or not connect() succeeds.
C16_MicrophoneGate ==
    /\ ~mic => /\ lpc = "none"
               /\ dpc \in {"start", "stopped"}
               /\ command_queue = <<>>
               /\ stats = NoStats /\ result = NoResult
               /\ logged = <<>> /\ executed = <<>>
    /\ Started => mic
    /\ (mic /\ dpc # "start") => Started

\* run() has returned on a machine without a microphone
C16_Witness == ~mic /\ ~ppt /\ Stopped /\ ~Started

\* C17: whenever the loop reaches STOPPED after RUNNING, by the exit command
\* or by cancellation, no transcript remains queued in the input buffer or in
\* the command queue.
C17_FlushedAtStop ==
    (Stopped /\ Started) => (command_queue = <<>> /\ queue = {})

\* C18: the number of transcripts pending between the listener and the
\* dispatch loop never exceeds INPUT_BUFFER_SIZE.
C18_PendingBounded ==
    Len(command_queue) + Cardinality(queue) <= buffer_size

\* C19: after a cancellation sets the stop flag while the loop is RUNNING, the
\* loop terminates having dequeued and executed at most one further item (here
\* none), and the counts it prints include every item executed so far.
C19_Cancellation ==
    /\ [](cancelled =>
            /\ Stopped /\ ~running
            /\ summary = stats
            /\ summary.total = heard - Len(command_queue)
            /\ Len(executed) <= summary.total)
    /\ [][cancelled => NothingProcessed]_vars

\* cancelled after an item was executed, with another item still queued
C19_Witness ==
    /\ cancelled
    /\ executed # <<>>
    /\ command_queue # <<>>
    /\ summary.total = Len(executed)

\* the entries of executed that ended in success
Successes == {i \in 1..Len(executed) : executed[i].outcome = "True"}

\* the action map has just met a failure for a command other than exit_program
ExecutorFailed ==
    /\ dpc = "act"
    /\ Len(executed') = Len(executed) + 1
    /\ executed'[Len(executed')].outcome # "True"
    /\ executed'[Len(executed')].cmd # "exit_program"

NonBlank(s) == Cardinality({i \in 1..Len(s) : Char(s, i) \notin Whitespace})

\* the answers of the classifier that are language codes
Codes == Answers \ {"LangDetectException", "Exception"}

\* the first element of langs (by position) that satisfies the test given as
\* the set of positions where it holds, or otherwise
FirstAt(langs, positions, otherwise) ==
    IF positions = {} THEN otherwise ELSE langs[Min(positions)]

\* what detect has to return when the classifier answers the code d
Located(d) ==
    LET langs == detector.supported_languages
        equal == {k \in DOMAIN langs : LANGUAGE_CONFIGS[langs[k]].code = d}
        begins == {k \in DOMAIN langs :
                     SubSeq(LANGUAGE_CONFIGS[langs[k]].code, 1, 2) = SubSeq(d, 1, 2)}
    IN  IF equal # {} THEN [language |-> FirstAt(langs, equal, None), confidence |-> 95]
        ELSE IF begins # {}
             THEN [language |-> FirstAt(langs, begins, None), confidence |-> 85]
        ELSE [language |-> detector.primary_language, confidence |-> 50]

\* what call i of detect returned
Returned(i) == [language |-> tasks[i].language, confidence |-> tasks[i].confidence]

\* C21: detect(text), for a text with at least 2 non-whitespace characters and
\* classifier output d, returns (L, 0.95) for the first supported L whose code
\* equals d, else (L, 0.85) for the first supported L whose code starts with
\* the first two characters of d, else (primary_language, 0.50); the language
\* returned is always a supported language or the primary language.
C21_DetectContract ==
    \A i \in DOMAIN tasks :
        tasks[i].state = "done" =>
            /\ (/\ NonBlank(texts[i]) >= 2
                /\ texts[i] \in DOMAIN classified
                /\ classified[texts[i]] \in Codes)
               => Returned(i) = Located(classified[texts[i]])
            /\ \/ tasks[i].language = detector.primary_language
               \/ \E k \in DOMAIN detector.supported_languages :
                    detector.supported_languages[k] = tasks[i].language

\* the three branches were taken: an exact match, a partial match for "zh-cn"
\* and the fallback to a primary language that is not supported
C21_Witness ==
    /\ Len(texts) = 2
    /\ \A i \in DOMAIN tasks : tasks[i].state = "done"
    /\ tasks[1].confidence = 85
    /\ tasks[1].language = "zh"
    /\ tasks[2].confidence = 50
    /\ tasks[2].language = "it"

\* C22: a failure of the classifier never propagates: whatever exception the
\* classifier raises, detect returns (primary_language, 0.0) and no call of
\* detect, and so no call of detect_batch, is left by an exception.
C22_NeverPropagates ==
    /\ batch.status # "raised"
    /\ \A i \in DOMAIN tasks :
         (/\ tasks[i].state \notin {"pending", "counting"}
          /\ texts[i] \in DOMAIN classified
          /\ classified[texts[i]] \notin Codes)
         => /\ tasks[i].state = "done"
            /\ Returned(i) = [language |-> detector.primary_language, confidence |-> 0]

\* what detect(txt) returns, the classifier's answers being those of classified
DetectValue(txt) ==
    IF NonBlank(txt) < 2 \/ classified[txt] = "LangDetectException"
    THEN [language |-> detector.primary_language, confidence |-> 0]
    ELSE Located(classified[txt])

\* C23: detect_batch(texts) returns a list as long as texts whose i-th element
\* is detect(texts[i]), the same list with the pool (every scheduling of its
\* threads) and without it.
C23_BatchIsMap ==
    batch.status = "returned" =>
        /\ Len(batch.value) = Len(texts)
        /\ \A i \in 1..Len(texts) : batch.value[i] = DetectValue(texts[i])

\* the pool returned two different results for two texts
C23_Witness ==
    /\ detector.parallel
    /\ batch.status = "returned"
    /\ Len(texts) = 2
    /\ batch.value[1].confidence = 95
    /\ batch.value[2].confidence = 0

\* the call of detect on text i returns in this step
Returns(i) == tasks[i].state = "pending" /\ tasks'[i].state # "pending"

\* C24: for a text that is empty or has fewer than 2 characters after
\* stripping whitespace, detect returns (primary_language, 0.0), the
\* classifier is not consulted and the detector's counters do not change.
C24_ShortText ==
    /\ [](\A i \in DOMAIN texts :
            Len(strip(texts[i])) < 2 => texts[i] \notin DOMAIN classified)
    /\ [][\A i \in DOMAIN texts :
            (Len(strip(texts[i])) < 2 /\ Returns(i))
            => /\ tasks'[i] = Detected(detector.primary_language, 0)
               /\ dstats' = dstats
               /\ classified' = classified]_vars

\* detect returned for the text " a " after another text was counted
C24_Witness ==
    /\ Len(texts) = 2
    /\ texts[2] = " a "
    /\ tasks[2].state = "done"
    /\ tasks[1].confidence = 95
    /\ Count(dstats, tasks[1].language) = 1

(***************************************************************************)
(* Properties of the training data logger                                  *)
(***************************************************************************)
\* the step is a completed call of log_text
Logs == Len(jsonl') = Len(jsonl) + 1

\* the ids of the records logged so far
LoggedIds == {jsonl[i].id : i \in DOMAIN jsonl}

\* the version of the record with this id that was logged last
Latest(id) == jsonl[Max({i \in DOMAIN jsonl : jsonl[i].id = id})]

\* C25: log_text of a record whose id is already stored replaces the stored
\* row of that id by the new field values, leaves every other row alone and
\* leaves get_statistics().total_entries unchanged.
C25_IdempotentRelog ==
    [][(Logs /\ jsonl'[Len(jsonl')].id \in DOMAIN db)
       => LET r == jsonl'[Len(jsonl')]
          IN  /\ db'[r.id] = r
              /\ DOMAIN db' = DOMAIN db
              /\ \A id \in DOMAIN db \ {r.id} : db'[id] = db[id]
              /\ (get_statistics.total_entries)' = get_statistics.total_entries]_vars

\* a record was logged over a stored one with the same id, another confidence
\* and another language, and the row holds the new values
C25_Witness ==
    /\ Len(jsonl) = 2
    /\ jsonl[1].id = jsonl[2].id
    /\ jsonl[1].confidence # jsonl[2].confidence
    /\ jsonl[1].language # jsonl[2].language
    /\ db[jsonl[2].id] = jsonl[2]
    /\ Cardinality(DOMAIN db) = 1

\* the examples sorted by timestamp, latest first
Descending(examples) ==
    \A i, j \in DOMAIN examples :
        i < j => examples[i].timestamp >= examples[j].timestamp

\* the examples are the rows of the given ids, each row once
SameRows(examples, ids) ==
    /\ Len(examples) = Cardinality(ids)
    /\ \A id \in ids :
         Cardinality({i \in DOMAIN examples : examples[i] = Example(db[id])})
           = Cardinality({other \in ids : Example(db[other]) = Example(db[id])})

\* the records logged are three records of three calls of create, with
\* confidences 0.5, 0.8 and 0.9 in this order
ThreeLogged ==
    /\ Len(jsonl) = 3
    /\ Cardinality({jsonl[i].serial : i \in DOMAIN jsonl}) = 3
    /\ jsonl[1].confidence = 50
    /\ jsonl[2].confidence = 80
    /\ jsonl[3].confidence = 90

\* export_training_set returns exactly the stored rows with confidence >=
\* threshold, latest timestamp first, with total_examples their number
C26_ExportSelects ==
    [][export' # export
       => LET threshold == export'.metadata.confidence_threshold
              examples == export'.training_examples
          IN  /\ SameRows(examples, {id \in DOMAIN db : db[id].confidence >= threshold})
              /\ Descending(examples)
              /\ export'.metadata.total_examples = Len(examples)]_vars

\* C26: export_training_set(path, threshold) returns exactly the stored
\* records with confidence >= threshold, ordered by timestamp descending, with
\* metadata.total_examples the number of examples returned; after logging
\* records with confidences 0.5, 0.8 and 0.9 an export with threshold 0.8
\* yields exactly 2 records.
C26_ExportRoundTrip ==
    [][export' # export
       => LET threshold == export'.metadata.confidence_threshold
              examples == export'.training_examples
          IN  /\ SameRows(examples, {id \in DOMAIN db : db[id].confidence >= threshold})
              /\ Descending(examples)
              /\ export'.metadata.total_examples = Len(examples)
              /\ (ThreeLogged /\ threshold = 80) => Len(examples) = 2]_vars

RECURSIVE Total(_)
\* the sum of the counts of a dict
Total(counts) ==
    IF DOMAIN counts = {} THEN 0
    ELSE LET k == CHOOSE x \in DOMAIN counts : TRUE
         IN  counts[k] + Total([x \in DOMAIN counts \ {k} |-> counts[x]])

\* the counts of the logged ids by a column of their latest version
ByLatest(column) ==
    [v \in {Latest(id)[column] : id \in LoggedIds} |->
        Cardinality({id \in LoggedIds : Latest(id)[column] = v})]

\* C27: after any sequence of completed log_text calls, get_statistics()
\* returns total_entries equal to the number of distinct ids logged, and
\* per-command and per-language counts that each sum to total_entries, every
\* record counted once under the values of its latest logged version.
C27_StatisticsConsistent ==
    [][statistics' # statistics
       => /\ statistics'.total_entries = Cardinality(LoggedIds)
          /\ Total(statistics'.by_command) = statistics'.total_entries
          /\ Total(statistics'.by_language) = statistics'.total_entries
          /\ statistics'.by_command = ByLatest("command_matched")
          /\ statistics'.by_language = ByLatest("language")]_vars

\* statistics taken after three calls of log_text on two ids
C27_Witness ==
    /\ Len(jsonl) = 3
    /\ statistics.total_entries = 2
    /\ DOMAIN statistics.by_command = {"next_slide", "prev_slide"}
    /\ DOMAIN statistics.by_language = {"en", "es"}
    /\ statistics.by_language["en"] = 1

\* C28: re-logging a record with a stored id never duplicates it: after any
\* sequence of log_text calls the table and the JSONL file both hold exactly
\* one entry for every distinct id.
C28_OneEntryPerId ==
    /\ DOMAIN db = LoggedIds
    /\ \A id \in LoggedIds :
         Cardinality({i \in DOMAIN jsonl : jsonl[i].id = id}) = 1

\* C29: every record built by AudioTextRecord.create has an id that no
\* record created before has, also for equal text and command at one clock
\* reading, so that logging N created records yields total_entries = N.
C29_DistinctIds ==
    /\ \A i, j \in DOMAIN jsonl :
         jsonl[i].serial # jsonl[j].serial => jsonl[i].id # jsonl[j].id
    /\ get_statistics.total_entries
         = Cardinality({jsonl[i].serial : i \in DOMAIN jsonl})

(***************************************************************************)
(* Properties of process_command                                           *)
(***************************************************************************)
\* k is s without its leading and trailing whitespace
Trimmed(s, k) ==
    /\ k = "" \/ (Char(k, 1) \notin Whitespace /\ Char(k, Len(k)) \notin Whitespace)
    /\ \E i \in 1..(Len(s) + 1 - Len(k)) :
         /\ SubSeq(s, i, i + Len(k) - 1) = k
         /\ \A n \in 1..Len(s) :
              (n < i \/ n >= i + Len(k)) => Char(s, n) \in Whitespace

\* C30: process_command(text) returns True and calls simulate_keypress exactly
\* once, with the configured key, iff text.lower().strip() is a key of the
\* commands map; otherwise it returns False and simulates no keypress.  So a
\* command configured in lower case is recognised in any case.
C30_ProcessCommand ==
    [][Len(processed') = Len(processed) + 1
       => LET call == processed'[Len(processed')]
              keys == {k \in DOMAIN commands : Trimmed(lower(call.text), k)}
          IN  IF keys # {}
              THEN /\ call.returned
                   /\ \E k \in keys : keypresses' = Append(keypresses, commands[k])
              ELSE /\ ~call.returned
                   /\ keypresses' = keypresses]_vars

\* "NEXT" and " next " pressed Right; "Stop" pressed nothing although the
\* configuration has the key "Stop"
C30_Witness ==
    /\ "Stop" \in DOMAIN commands
    /\ Len(processed) = 3
    /\ processed[1] = [text |-> "NEXT", returned |-> TRUE]
    /\ processed[2] = [text |-> "Stop", returned |-> FALSE]
    /\ processed[3] = [text |-> " next ", returned |-> TRUE]
    /\ keypresses = <<"Right", "Right">>


(***************************************************************************)
(* get_next with the gate open                                             *)
(***************************************************************************)
\* thread t calls get_next in this step
GetNextCalled(t) ==
    /\ pc[t] = "idle"
    /\ \/ pc'[t] = "gn_pop"
       \/ pc' = pc /\ ret' # ret /\ ret'.op = "get_next"

\* thread t comes back from the get of get_next in this step
GetNextEnds(t) == pc[t] = "gn_pop" /\ pc'[t] = "idle"

\* C31: when at least debounce_ms has elapsed since the last successful
\* return (or nothing was returned yet) and the queue is non-empty, get_next
\* returns a payload and sets last_execution_time to the time it read; two
\* calls spaced debounce_ms or more apart with items queued both return a
\* value.
C31_OpenGate ==
    [][\A t \in Threads :
         /\ (GetNextCalled(t) /\ clock - last_execution_time >= debounce_ms)
               => (pc'[t] = "gn_pop" /\ frame'[t].now = clock /\ queue' = queue)
         /\ (pc[t] = "gn_pop" /\ ~GetNextEnds(t)) => queue' = queue
         /\ (GetNextEnds(t) /\ queue # {})
               => /\ ret'.op = "get_next"
                  /\ \E x \in queue : /\ ret'.val = x.command
                                      /\ queue' = queue \ {x}
                  /\ last_execution_time' = frame[t].now
                  /\ Len(returned') = Len(returned) + 1]_vars

\* the first call returned at the start time, the second one exactly
\* debounce_ms later, both with a payload
C31_Witness ==
    /\ Len(returned) = 2
    /\ returned[1].now = StartTime
    /\ returned[2].now = StartTime + debounce_ms
    /\ last_execution_time = returned[2].now
    /\ ret.op = "get_next" /\ ret.val # "None"


(***************************************************************************)
(* flush and the gate                                                      *)
(***************************************************************************)
\* thread t is inside flush, or calls it in this step
InFlush(t) ==
    \/ pc[t] \in {"fl_test", "fl_get"}
    \/ pc[t] = "idle" /\ pc'[t] = "fl_test"

\* C32: flush, with no producer running beside it, leaves the queue empty and
\* does not change last_execution_time: a get_next that was gated before the
\* flush is still gated after it, and items added after the flush meet the
\* same gate.
C32_FlushKeepsGate ==
    [][\A t \in Threads :
         InFlush(t) =>
            /\ last_execution_time' = last_execution_time
            /\ \A now \in StartTime..(StartTime + MaxTicks) :
                  GateClosed(now)' = GateClosed(now)
            /\ queue' \subseteq queue
            /\ (pc'[t] = "idle" => (queue' = {} /\ ret'.op = "flush"))]_vars

\* a flush that removed an entry has returned while the gate is closed, and
\* an item added after it waits in the queue behind the gate
C32_Witness ==
    /\ ret.op = "add_input"
    /\ flushed # {}
    /\ returned # <<>>
    /\ GateClosed(clock)
    /\ \E x \in queue : \A id \in flushed : x.id > id


(***************************************************************************)
(* one producer beside one consumer                                        *)
(***************************************************************************)
\* C33: with one producer in add_input and one consumer in get_next,
\* add_input discards an item (a queued one by eviction, or the new one by
\* returning False) only while the buffer holds buffer_size items; add_input
\* never returns False.
C33_DiscardOnlyWhenFull ==
    /\ [](ret # [op |-> "add_input", val |-> "False"])
    /\ [][evicted' # evicted => Cardinality(queue) = buffer_size]_vars


(***************************************************************************)
(* the counters of the detector under a parallel batch                     *)
(***************************************************************************)
\* the texts of the batch that detect classified directly as language l
Direct(l) ==
    {i \in DOMAIN tasks : tasks[i].language = l /\ tasks[i].confidence = 95}

\* C34: after a parallel detect_batch has completed, stats[L] has grown by
\* exactly the number of texts classified directly as L, for every language L
\* and every interleaving of the workers: no update is lost.
C34_NoLostUpdate ==
    (detector.parallel /\ batch.status = "returned") =>
        \A l \in Language : Count(dstats, l) = Cardinality(Direct(l))


(***************************************************************************)
(* order of return within a priority                                       *)
(***************************************************************************)
\* C35: items of equal priority are returned by get_next in the order in which
\* they were added, also when two of them were added at the same clock reading
\* and carry different payloads.  (Two queued items with the same payload
\* cannot be told apart by the caller, so only different payloads are compared.)
C35_FifoWithinPriority ==
    [][Len(returned') = Len(returned) + 1 =>
         \A x, y \in queue :
            (/\ x.id = returned'[Len(returned')].id
             /\ y.priority = x.priority
             /\ y.command # x.command)
               => x.id < y.id]_vars


(***************************************************************************)
(* the shape of a match_command result                                     *)
(***************************************************************************)
\* C36: every result of match_command is either (c, p, score, method) with c
\* not None and method Regex or Fuzzy, or exactly (None, None, 0, None): for
\* every text, language and FUZZY_THRESHOLD in 0..100 the command is None iff
\* the method is None.
C36_ResultShape ==
    Answered =>
        /\ (result.cmd = None) <=> (result.method = None)
        /\ result.cmd # None => result.method \in {"Regex", "Fuzzy"}
        /\ result.cmd = None =>
              result = [cmd |-> None, params |-> None, score |-> 0, method |-> None]


(***************************************************************************)
(* start and stop of the monitoring thread                                 *)
(***************************************************************************)
\* monitoring thread i hands a text to process_command in this step
Processes(i) == thread[i] = "listen" /\ processed' # processed

\* C37: for any sequence of start() and stop() calls at most one monitoring
\* thread is alive at any time; start() while running makes no second thread;
\* after a start() that follows a returned stop(), no thread of the previous
\* run processes commands.
C37_OneMonitor ==
    /\ [](Cardinality(Alive) <= 1)
    /\ [][/\ (monitoring /\ main = "idle") => thread' \in {thread} \cup
                 {[thread EXCEPT ![i] = s] : i \in Alive, s \in {"test", "listen", "ended"}}
          /\ \A i \in 1..MaxStarts :
                (Processes(i) /\ monitoring) => i = monitoring_thread]_vars


(***************************************************************************)
(* the listener without training-data collection                           *)
(***************************************************************************)
\* C38: disabling training-data collection only suppresses logging: with
\* ENABLE_TRAINING false as with it true, while the controller is RUNNING the
\* listener at the head of its loop can obtain the next transcript from the
\* speech recogniser, which it then enqueues.
C38_ListensWithoutTraining ==
    (Started /\ running /\ lpc = "test" /\ heard < MaxHeard) => ENABLED ListenTest


(***************************************************************************)
(* get_next that returns nothing                                           *)
(***************************************************************************)
\* a call of get_next comes back with None in this step: at once from the
\* closed gate, or from the get on an empty queue
GetNextNone ==
    /\ ret'.op = "get_next"
    /\ ret'.val = "None"
    /\ \/ pc' = pc /\ ret' # ret
       \/ \E t \in Threads : GetNextEnds(t)

\* C39: a get_next call that returns nothing (gate closed, or queue empty with
\* the gate open) leaves the queue and last_execution_time unchanged: queued
\* items persist until the gate opens, and only a call that returns a payload
\* resets the clock.
C39_NothingReturned ==
    [][/\ GetNextNone =>
            /\ queue' = queue
            /\ last_execution_time' = last_execution_time
            /\ returned' = returned
       /\ (\E t \in Threads : pc[t] = "gn_pop" /\ pc'[t] = "gn_pop") =>
            /\ queue' = queue
            /\ last_execution_time' = last_execution_time
       /\ last_execution_time' # last_execution_time =>
            /\ \E t \in Threads : GetNextEnds(t)
            /\ ret'.op = "get_next" /\ ret'.val # "None"]_vars

\* after a call that returned a payload, a gated call came back empty while
\* an item was queued
C39_Witness ==
    /\ ret = [op |-> "get_next", val |-> "None"]
    /\ \A t \in Threads : pc[t] = "idle"
    /\ queue # {}
    /\ GateClosed(clock)
    /\ returned # <<>>


(***************************************************************************)
(* the counters of the dispatch loop                                       *)
(***************************************************************************)
\* the sum of the counts of a dict
RECURSIVE Sum(_)
Sum(d) ==
    IF DOMAIN d = {} THEN 0
    ELSE LET k == CHOOSE x \in DOMAIN d : TRUE
         IN  d[k] + Sum([x \in DOMAIN d \ {k} |-> d[x]])

\* the number of items run() has passed to execute()
Passed == heard - Len(command_queue)

====
